---- MODULE Spec2Model ----
(***************************************************************************)
(* Network Viewer: the NetworkSimulator thread team (simulation thread,    *)
(* worker threads, barrier, pause condition, command queue, parameter      *)
(* triple buffer, destructor), the NetworkViewerServer's client / load     *)
(* handling, the drag commands, and the ParticleOctree.                    *)
(***************************************************************************)
EXTENDS Integers, Sequences, FiniteSets, TLC

(***************************************************************************)
(* Bounds of the model.                                                    *)
(***************************************************************************)
MaxWorkers == 1
MaxCommands == 2
MaxPosts == 1

(* particles.setNumRelaxationIterations(sSimulationParameters.numRelaxationIterations) *)
NumRelaxationIterations == 1

VARIABLES
    numWorkerThreads,            \* NetworkSimulator::numWorkerThreads
    keepSimulationThreadRunning, \* volatile bool
    pauseSimulationThread,       \* volatile bool
    pc,                          \* position of every thread of the team; 0 is the simulation thread
    arrived,                     \* threads waiting inside barrier.synchronize()
    elected,                     \* the thread for which the last completed synchronize() returned true
    iteration,                   \* per thread: the loop variable of the relaxation loop
    roundsDone,                  \* history, per thread: relaxation rounds completed since the simulation thread began its tick
    simulationCommands,          \* the shared command list
    scs,                         \* the simulation thread's local list of drained commands
    executed,                    \* history: commands whose execute() ran, in order
    deleted,                     \* history: commands deleted by the destructor without being executed
    numQueued,                   \* history: number of commands queued so far
    buffer,                      \* TripleBuffer<SimulationParameters>::buffer
    lockedIndex,                 \* TripleBuffer::lockedIndex
    mostRecentIndex,             \* TripleBuffer::mostRecentIndex
    nextIndex,                   \* TripleBuffer::nextIndex; -1 when no post is under way
    numPosted,                   \* number of parameter sets posted so far
    attenuation,                 \* the particle system's adopted attenuation / link strength
    spRef,                       \* per thread: the buffer slot its reference sp is bound to
    spSeen,                      \* per thread: the parameter values it used in the current tick
    dtor,                        \* position of ~NetworkSimulator
    woken                        \* history: resume() has woken the simulation thread, which has not begun a tick since

simVars == <<numWorkerThreads, keepSimulationThreadRunning, pauseSimulationThread, pc,
             arrived, elected, iteration, roundsDone, simulationCommands, scs,
             executed, deleted, numQueued, buffer, lockedIndex, mostRecentIndex,
             nextIndex, numPosted, attenuation, spRef, spSeen, dtor, woken>>

(***************************************************************************)
(* Bounds of the server model.                                             *)
(***************************************************************************)
MaxClients == 2
MaxLoads == 2
MaxRequests == 2
NumParticles == 2
MaxDragId == 1

(* typedef Misc::UInt16 Version                                            *)
VersionModulus == 65536

(* particles.addParticle(Scalar(1),pos,Vector::zero)                       *)
InitialInvMass == 1

VARIABLES
    clients,                     \* PluginServer::clients: the IDs of the connected clients
    numConnections,              \* number of connections accepted so far; client IDs are not reused
    nvClient,                    \* per client: NetworkViewerServer::Client (activeDrags)
    networkVersion,              \* NetworkViewerServer::networkVersion
    networkFile,                 \* NetworkViewerServer::networkFile; 0 or a file
    network,                     \* NetworkViewerServer::network; 0 or the file it was parsed from
    simulator,                   \* NetworkViewerServer::simulator; 0 or the ID of the simulated network
    sim,                         \* the state of the NetworkSimulator that simulator points to
    jobs,                        \* the server's ReadNetworkJobs in flight
    failedLoad,                  \* history: 0, or the network held when the load that failed last was requested
    viewer,                      \* per client: NetworkViewerClient (networkVersion, network, downloadingVersion)
    viewerJobs,                  \* the clients' ReadNetworkJobs in flight
    toServer,                    \* per client: LoadNetworkRequest messages on their way to the server
    toClient,                    \* per client: LoadNetworkNotification messages on their way to the client
    numLoads,                    \* number of loadNetwork calls so far
    numRequests                  \* number of selection and drag requests accepted so far

srvVars == <<clients, numConnections, nvClient, networkVersion, networkFile, network, simulator, sim,
             jobs, failedLoad, viewer, viewerJobs, toServer, toClient, numLoads, numRequests>>

(***************************************************************************)
(* Bounds of the octree model.                                             *)
(***************************************************************************)
MaxParticlesPerNode == 2         \* the largest capacity setMaxParticlesPerNode is called with
MaxOctreeParticles == 3          \* number of particles the particle system creates
MaxMoved == 2                    \* number of particles a tick moves to another position
MaxCell == 1                     \* the particles stay in the unit cells 0 .. MaxCell of each axis
Resolution == 2                  \* a unit cell can be halved this many times in the model's coordinates

VARIABLES
    maxParticlesPerNode,         \* Node::maxParticlesPerNode: the capacity of a leaf
    particlePosition,            \* ParticleSystem: position of particle i, for the particles created so far
    octree,                      \* ParticleOctree: the nodes by their path of child indices from the root
    octreeParticles,             \* history: the particles added to the octree and not removed
    outOfDomainParticles,        \* history: the particles the last updateParticles found outside the octree's domain
    enlargedFrom,                \* history: the kinds of root node, "leaf" or "interior", the last call enlarged
    thrown                       \* history: the error the last call has thrown, "" when it returned

octVars == <<maxParticlesPerNode, particlePosition, octree, octreeParticles, outOfDomainParticles,
             enlargedFrom, thrown>>

(***************************************************************************)
(* Bounds of the particle system model.  Positions are integers on a line, *)
(* in steps of 1 / PositionUnit; the time step dt and prevDt are 1.        *)
(***************************************************************************)
MaxSystemParticles == 2          \* number of particles addParticle is called for
MaxDistConstraints == 2          \* number of distance constraints addDistConstraint is called for
MaxTicks == 1                    \* number of ticks
MaxRelaxationIterations == 2     \* the largest value setNumRelaxationIterations is called with
PositionUnit == 24               \* grid steps per unit of length

VARIABLES
    particleSystem,              \* ParticleSystem: gravity, attenuation, numRelaxationIterations, invMass,
                                 \* numDistConstraints, pos, prevPos, distConstraints
    relaxedFrom,                 \* history: the positions the last tick's relaxation started from
    numTicks                     \* history: number of ticks so far

psVars == <<particleSystem, relaxedFrom, numTicks>>

(***************************************************************************)
(* Bounds of the network model.                                            *)
(***************************************************************************)
NumNodes == 3                    \* number of nodes of the network
MaxLinks == 3                    \* number of links of the network

VARIABLES
    links,                       \* Network::links: the source and target index of each link
    linkedNodes,                 \* per node: Node::linkedNodes
    selection,                   \* Network::selection
    nodeColors,                  \* Network::nodeColors
    lastCall,                    \* history: the selection method called last
    selectionBefore,             \* history: the selection before the last call
    grownFrom                    \* history: the selection before growSelection, while that is the last
                                 \* call or the one before a last shrinkSelection call

netVars == <<links, linkedNodes, selection, nodeColors, lastCall, selectionBefore, grownFrom>>

(***************************************************************************)
(* Bounds of the update timer model.                                       *)
(***************************************************************************)
MaxTime == 12                    \* the clock stops here
MaxElapsed == 5                  \* the longest time one turn of the simulation loop takes
MaxUpdateInterval == 3           \* the largest value setUpdateInterval is called with

VARIABLES
    currentTime,                 \* the monotonic clock
    nextUpdateTime,              \* simulationThreadMethod: nextUpdateTime
    updateInterval,              \* NetworkSimulator::updateInterval
    lastUpdates                  \* history: time, interval and restart of the last simulation updates

timerVars == <<currentTime, nextUpdateTime, updateInterval, lastUpdates>>

(* NetworkViewer and its SelectAndDragTool objects                         *)
VARIABLES
    selectionLocked,             \* NetworkViewer::selectionLocked
    tools                        \* per tool: button state, draggingSelection, draggedParticles

toolVars == <<selectionLocked, tools>>

(* A session of the server with its clients: what the request and         *)
(* notification messages other than the load messages act on               *)
VARIABLES
    forwards,                    \* forwardInStream calls whose completion callback has not run yet
    labeledNodes,                \* NetworkViewerServer::labeledNodes
    clientState,                 \* per client: the selection of its network, selectionSet, activeDrags, lastDragId, DragTool::dragId
    lastRequest                  \* history: what the last request handler did with its request

sessVars == <<forwards, labeledNodes, clientState, lastRequest>>

(* The variables of the classes that the thread team, the server and the   *)
(* octree do not touch.                                                    *)
libVars == <<psVars, netVars, timerVars, toolVars, sessVars>>

vars == <<simVars, srvVars, octVars, libVars>>

(* The variables that no step of the thread team changes.                  *)
constVars == <<numWorkerThreads, srvVars, octVars, libVars>>

Threads == 0 .. numWorkerThreads
Workers == 1 .. numWorkerThreads

(***************************************************************************)
(* The barrier: barrier.setNumSynchronizingThreads(1+numWorkerThreads).    *)
(***************************************************************************)
BarrierFullOffByOne(arr) == Cardinality(arr) >= numWorkerThreads

BarrierFull(arr) == Cardinality(arr) = 1 + numWorkerThreads

(* The places where a thread calls barrier.synchronize().                  *)
BarrierPcs == {"b0", "b1", "b2", "b3", "b4", "b5", "b6"}

(* The physics step: innerUpdateLoopIteration, from moveParticles to the   *)
(* end of enforceConstraints.                                              *)
StepPcs == {"move", "force", "b1", "swappos", "b2", "bound", "b3", "accum", "b4",
            "apply", "b5", "octree", "b6"}

(* The places where a thread writes particle positions.                    *)
WritePcs == {"move", "force", "swappos", "bound", "apply"}

InStep(t) == pc[t] \in StepPcs

(* Where a thread continues when it returns from synchronize() at b.       *)
AfterBarrier(t, b, isElected) ==
    CASE b = "b0" -> "move"
      [] b = "b1" -> IF isElected THEN "swappos" ELSE "b2"
      [] b = "b2" -> "bound"
      [] b = "b3" -> "accum"
      [] b = "b4" -> "apply"
      [] b = "b5" -> IF isElected THEN "octree" ELSE "b6"
      [] b = "b6" -> IF t = 0 THEN "time" ELSE "loop"

(* With barrier==0 (no worker threads) the synchronize() calls are skipped *)
(* and swapPositions / updateOctree keep their initial value true.         *)
SkipBarriers(p) ==
    IF numWorkerThreads > 0 \/ p \notin BarrierPcs THEN p
    ELSE CASE p = "b0" -> "move"
           [] p = "b1" -> "swappos"
           [] p = "b2" -> "bound"
           [] p = "b3" -> "accum"
           [] p = "b4" -> "apply"
           [] p = "b5" -> "octree"
           [] p = "b6" -> "time"

Goto(t, p) == pc' = [pc EXCEPT ![t] = SkipBarriers(p)]

(***************************************************************************)
(* TripleBuffer<SimulationParameters>.                                     *)
(***************************************************************************)
StartSlotLocked == lockedIndex

(* startNewValue(): the slot after the locked one, skipping the most recent *)
StartSlot ==
    IF (lockedIndex + 1) % 3 = mostRecentIndex
        THEN (lockedIndex + 2) % 3
        ELSE (lockedIndex + 1) % 3

GetMostRecentValueSlot == mostRecentIndex

(* getLockedValue(): the slot a thread's reference sp is bound to          *)
GetLockedValueSlot == lockedIndex

SimInit ==
    /\ numWorkerThreads \in 0 .. MaxWorkers
    /\ keepSimulationThreadRunning = TRUE
    /\ pauseSimulationThread = FALSE
    /\ pc = [t \in 0 .. numWorkerThreads |-> "loop"]
    /\ arrived = {}
    /\ elected = 0
    /\ iteration = [t \in 0 .. numWorkerThreads |-> 0]
    /\ roundsDone = [t \in 0 .. numWorkerThreads |-> 0]
    /\ simulationCommands = <<>>
    /\ scs = <<>>
    /\ executed = <<>>
    /\ deleted = <<>>
    /\ numQueued = 0
    /\ buffer = [i \in 0 .. 2 |-> IF i = 1 THEN 1 ELSE 0]
    /\ lockedIndex = 0
    /\ mostRecentIndex = 1
    /\ nextIndex = -1
    /\ numPosted = 1
    /\ attenuation = 1
    /\ spRef = [t \in 0 .. numWorkerThreads |-> 0]
    /\ spSeen = [t \in 0 .. numWorkerThreads |-> {}]
    /\ dtor = "none"
    /\ woken = FALSE

flagVars == <<keepSimulationThreadRunning, pauseSimulationThread>>
barVars == <<arrived, elected>>
progVars == <<iteration, roundsDone>>
cmdVars == <<simulationCommands, scs, executed, deleted, numQueued>>
bufVars == <<buffer, lockedIndex, mostRecentIndex, nextIndex, numPosted>>
spVars == <<attenuation, spRef, spSeen>>

(***************************************************************************)
(* simulationThreadMethod                                                  *)
(***************************************************************************)
(* while(keepSimulationThreadRunning)                                      *)
SimLoop ==
    /\ pc[0] = "loop"
    /\ IF keepSimulationThreadRunning THEN Goto(0, "pause") ELSE Goto(0, "done")
    /\ UNCHANGED <<constVars, woken, flagVars, barVars, progVars, cmdVars, bufVars, spVars, dtor>>

(* Lock pauseSimulationThreadCond; while(pauseSimulationThread) wait       *)
SimPauseCheck ==
    /\ pc[0] = "pause"
    /\ IF pauseSimulationThread THEN Goto(0, "pausewait") ELSE Goto(0, "lock")
    /\ woken' = (woken /\ pauseSimulationThread)
    /\ UNCHANGED <<constVars, flagVars, barVars, progVars, cmdVars, bufVars, spVars, dtor>>

(* if(simulationParameters.lockNewValue()) adopt attenuation, link strength *)
SimLockParameters ==
    /\ pc[0] = "lock"
    /\ lockedIndex' = mostRecentIndex
    /\ attenuation' = IF lockedIndex # mostRecentIndex THEN buffer[mostRecentIndex] ELSE attenuation
    /\ Goto(0, "swapq")
    /\ UNCHANGED <<constVars, woken, flagVars, barVars, progVars, cmdVars, buffer,
                   mostRecentIndex, nextIndex, numPosted, spRef, spSeen, dtor>>

(* std::swap(simulationCommands,scs) under simulationCommandsMutex         *)
SimSwapCommands ==
    /\ pc[0] = "swapq"
    /\ scs' = simulationCommands
    /\ simulationCommands' = <<>>
    /\ Goto(0, "exec")
    /\ UNCHANGED <<constVars, woken, flagVars, barVars, progVars, executed, deleted, numQueued,
                   bufVars, spVars, dtor>>

\* scIt->execute(this); delete scIt
SimExecute ==
    /\ pc[0] = "exec"
    /\ scs # <<>>
    /\ executed' = Append(executed, Head(scs))
    /\ scs' = Tail(scs)
    /\ UNCHANGED <<constVars, woken, flagVars, barVars, progVars, simulationCommands, deleted,
                   numQueued, bufVars, spVars, dtor, pc>>

SimExecuteDone ==
    /\ pc[0] = "exec"
    /\ scs = <<>>
    /\ Goto(0, "drags")
    /\ UNCHANGED <<constVars, woken, flagVars, barVars, progVars, cmdVars, bufVars, spVars, dtor>>

(* Apply all active drag operations, then if(numWorkerThreads>0) barrier.synchronize() *)
SimApplyDrags ==
    /\ pc[0] = "drags"
    /\ roundsDone' = [t \in DOMAIN roundsDone |-> 0]
    /\ Goto(0, "b0")
    /\ UNCHANGED <<constVars, woken, flagVars, barVars, iteration, cmdVars, bufVars, spVars, dtor>>

(* if(currentTime>=nextUpdateTime): the wall clock decides                 *)
SimTimeCheck ==
    /\ pc[0] = "time"
    /\ \/ Goto(0, "callback")
       \/ Goto(0, "loop")
    /\ UNCHANGED <<constVars, woken, flagVars, barVars, progVars, cmdVars, bufVars, spVars, dtor>>

\* simulationUpdateCallback(particles)
SimCallback ==
    /\ pc[0] = "callback"
    /\ Goto(0, "loop")
    /\ UNCHANGED <<constVars, woken, flagVars, barVars, progVars, cmdVars, bufVars, spVars, dtor>>

(***************************************************************************)
(* simulationWorkerThreadMethod                                            *)
(***************************************************************************)
WorkerLoop(t) ==
    /\ t \in Workers
    /\ pc[t] = "loop"
    /\ IF keepSimulationThreadRunning THEN Goto(t, "b0") ELSE Goto(t, "done")
    /\ UNCHANGED <<constVars, woken, flagVars, barVars, progVars, cmdVars, bufVars, spVars, dtor>>

(***************************************************************************)
(* Threads::Barrier::synchronize                                           *)
(***************************************************************************)
BarrierSynchronize(t) ==
    /\ t \in Threads
    /\ pc[t] \in BarrierPcs
    /\ t \notin arrived
    /\ LET arr == arrived \cup {t}
       IN IF BarrierFull(arr)
              THEN /\ arrived' = {}
                   /\ \E e \in arr :
                        /\ elected' = e
                        /\ pc' = [u \in DOMAIN pc |->
                                    IF u \in arr THEN AfterBarrier(u, pc[u], u = e) ELSE pc[u]]
              ELSE /\ arrived' = arr
                   /\ UNCHANGED <<elected, pc>>
    /\ UNCHANGED <<constVars, woken, flagVars, progVars, cmdVars, bufVars, spVars, dtor>>

(***************************************************************************)
(* innerUpdateLoopIteration and ParticleSystem::enforceConstraints         *)
(***************************************************************************)
(* sp=simulationParameters.getLockedValue(); particles.moveParticles(dt,threadIndex) *)
MoveParticles(t) ==
    /\ t \in Threads
    /\ pc[t] = "move"
    /\ spRef' = [spRef EXCEPT ![t] = GetLockedValueSlot]
    /\ spSeen' = [spSeen EXCEPT ![t] = {attenuation}]
    /\ Goto(t, "force")
    /\ UNCHANGED <<constVars, woken, flagVars, barVars, progVars, cmdVars, bufVars, attenuation, dtor>>

(* Central force and n-body repulsion: reads sp.centralForce, sp.repellingForce... *)
ApplyForces(t) ==
    /\ t \in Threads
    /\ pc[t] = "force"
    /\ spSeen' = [spSeen EXCEPT ![t] = spSeen[t] \cup {buffer[spRef[t]]}]
    /\ Goto(t, "b1")
    /\ UNCHANGED <<constVars, woken, flagVars, barVars, progVars, cmdVars, bufVars, attenuation,
                   spRef, dtor>>

(* std::swap(prevPos,pos); prevDt=dt;  by the elected thread               *)
SwapPositions(t) ==
    /\ t \in Threads
    /\ pc[t] = "swappos"
    /\ Goto(t, "b2")
    /\ UNCHANGED <<constVars, woken, flagVars, barVars, progVars, cmdVars, bufVars, spVars, dtor>>

(* Boundary constraints on this thread's particles, then the relaxation loop *)
EnforceBoundary(t) ==
    /\ t \in Threads
    /\ pc[t] = "bound"
    /\ iteration' = [iteration EXCEPT ![t] = 0]
    /\ IF 0 < NumRelaxationIterations THEN Goto(t, "b3") ELSE Goto(t, "b5")
    /\ UNCHANGED <<constVars, woken, flagVars, barVars, roundsDone, cmdVars, bufVars, spVars, dtor>>

(* Reset this thread's deltas and process its distance constraints         *)
AccumulateDeltas(t) ==
    /\ t \in Threads
    /\ pc[t] = "accum"
    /\ Goto(t, "b4")
    /\ UNCHANGED <<constVars, woken, flagVars, barVars, progVars, cmdVars, bufVars, spVars, dtor>>

(* Add all threads' deltas to this thread's particles and re-clamp them    *)
ApplyDeltas(t) ==
    /\ t \in Threads
    /\ pc[t] = "apply"
    /\ iteration' = [iteration EXCEPT ![t] = iteration[t] + 1]
    /\ roundsDone' = [roundsDone EXCEPT ![t] = roundsDone[t] + 1]
    /\ IF iteration[t] + 1 < NumRelaxationIterations THEN Goto(t, "b3") ELSE Goto(t, "b5")
    /\ UNCHANGED <<constVars, woken, flagVars, barVars, cmdVars, bufVars, spVars, dtor>>

(* octree.updateParticles() by the elected thread                          *)
UpdateOctree(t) ==
    /\ t \in Threads
    /\ pc[t] = "octree"
    /\ Goto(t, "b6")
    /\ UNCHANGED <<constVars, woken, flagVars, barVars, progVars, cmdVars, bufVars, spVars, dtor>>

(***************************************************************************)
(* The front end (the server's main thread), until it destroys the         *)
(* simulator.                                                              *)
(***************************************************************************)
PushFront(list, command) == <<command>> \o list

(* simulationCommands.push_back(command)                                   *)
PushBack(list, command) == Append(list, command)

QueueCommand ==
    /\ dtor = "none"
    /\ nextIndex = -1
    /\ numQueued < MaxCommands
    /\ numQueued' = numQueued + 1
    /\ simulationCommands' = PushBack(simulationCommands, numQueued + 1)
    /\ UNCHANGED <<constVars, woken, flagVars, barVars, progVars, scs, executed, deleted,
                   bufVars, spVars, dtor, pc>>

(* setSimulationParameters: startNewValue()=newValue ...                   *)
PostStart ==
    /\ dtor = "none"
    /\ nextIndex = -1
    /\ numPosted < 1 + MaxPosts
    /\ nextIndex' = StartSlot
    /\ buffer' = [buffer EXCEPT ![StartSlot] = numPosted + 1]
    /\ numPosted' = numPosted + 1
    /\ UNCHANGED <<constVars, woken, flagVars, barVars, progVars, cmdVars, lockedIndex,
                   mostRecentIndex, spVars, dtor, pc>>

(* ... postNewValue(): mostRecentIndex=nextIndex                           *)
PostFinish ==
    /\ nextIndex # -1
    /\ mostRecentIndex' = nextIndex
    /\ nextIndex' = -1
    /\ UNCHANGED <<constVars, woken, flagVars, barVars, progVars, cmdVars, buffer, lockedIndex,
                   numPosted, spVars, dtor, pc>>

(* resume() does not signal the condition variable                         *)
NotSignalled(p) == p

(* pauseSimulationThreadCond.signal()                                      *)
Signalled(p) == [t \in DOMAIN p |-> IF t = 0 /\ p[t] = "pausewait" THEN "pause" ELSE p[t]]

Pause ==
    /\ dtor = "none"
    /\ nextIndex = -1
    /\ ~pauseSimulationThread
    /\ pauseSimulationThread' = TRUE
    /\ UNCHANGED <<constVars, woken, keepSimulationThreadRunning, barVars, progVars, cmdVars,
                   bufVars, spVars, dtor, pc>>

Resume ==
    /\ dtor = "none"
    /\ nextIndex = -1
    /\ pauseSimulationThread
    /\ pauseSimulationThread' = FALSE
    /\ pc' = Signalled(pc)
    /\ woken' = (woken \/ pc[0] = "pausewait")
    /\ UNCHANGED <<constVars, keepSimulationThreadRunning, barVars, progVars, cmdVars,
                   bufVars, spVars, dtor>>

(***************************************************************************)
(* ~NetworkSimulator                                                       *)
(***************************************************************************)
ExecutePendingCommands(ex, pending) == [executed |-> ex \o pending, deleted |-> <<>>]

(* Delete all pending simulation commands                                  *)
DeletePendingCommands(ex, pending) == [executed |-> ex, deleted |-> pending]

DtorStop ==
    /\ dtor = "none"
    /\ nextIndex = -1
    /\ keepSimulationThreadRunning' = FALSE
    /\ dtor' = "signal"
    /\ UNCHANGED <<constVars, woken, pauseSimulationThread, barVars, progVars, cmdVars, bufVars,
                   spVars, pc>>

DtorSignal ==
    /\ dtor = "signal"
    /\ pauseSimulationThread' = FALSE
    /\ pc' = Signalled(pc)
    /\ dtor' = "joinSim"
    /\ UNCHANGED <<constVars, woken, keepSimulationThreadRunning, barVars, progVars, cmdVars,
                   bufVars, spVars>>

DtorJoinSim ==
    /\ dtor = "joinSim"
    /\ pc[0] = "done"
    /\ dtor' = "joinWorkers"
    /\ UNCHANGED <<constVars, woken, flagVars, barVars, progVars, cmdVars, bufVars, spVars, pc>>

DtorJoinWorkers ==
    /\ dtor = "joinWorkers"
    /\ \A w \in Workers : pc[w] = "done"
    /\ dtor' = "delete"
    /\ UNCHANGED <<constVars, woken, flagVars, barVars, progVars, cmdVars, bufVars, spVars, pc>>

DtorDelete ==
    /\ dtor = "delete"
    /\ LET r == DeletePendingCommands(executed, simulationCommands)
       IN /\ executed' = r.executed
          /\ deleted' = r.deleted
    /\ simulationCommands' = <<>>
    /\ dtor' = "end"
    /\ UNCHANGED <<constVars, woken, flagVars, barVars, progVars, scs, numQueued, bufVars,
                   spVars, pc>>

(***************************************************************************)
(* ParticleOctree.  A node is a record of its domain [min, max), its       *)
(* center, numParticles and, for a leaf, particleIndices; the tree is the  *)
(* function from paths to nodes, where the path of a node is the sequence  *)
(* of child indices that leads to it from the root, and root==0 is the     *)
(* function with the empty domain.  Coordinates are integers: Scalar(1) is *)
(* UnitLength, so the center of every node of at least two coordinate      *)
(* units is exact.  A tree that is built node by node is written           *)
(* <<>> @@ [q \in ... |-> ...], which is the same function, enumerated.    *)
(***************************************************************************)
UnitLength == 2 ^ Resolution

Coords == 1 .. 3

ChildIndices == 0 .. 7

(* The positions the particle system gives its particles: in two rows of   *)
(* unit cells, on a face of the cell in one row and inside the cell in the *)
(* other                                                                   *)
Positions ==
    {<<UnitLength * c + d, UnitLength * d + 1, 1>> : c \in 0 .. MaxCell, d \in 0 .. 1}

Created == DOMAIN particlePosition

(* childIndex&(1<<i)                                                        *)
Bit(childIndex, i) == (childIndex \div (2 ^ (i - 1))) % 2

(* Geometry::mid                                                            *)
Mid(a, b) == <<(a[1] + b[1]) \div 2, (a[2] + b[2]) \div 2, (a[3] + b[3]) \div 2>>

(* Math::floor, per component                                               *)
Floor(p) == <<UnitLength * (p[1] \div UnitLength), UnitLength * (p[2] \div UnitLength),
              UnitLength * (p[3] \div UnitLength)>>

(* Node::Node(parent, min, max): an empty leaf                              *)
NewNode(min, max) ==
    [min |-> min, max |-> max, center |-> Mid(min, max), numParticles |-> 0,
     particleIndices |-> <<>>]

(* Node::isInside                                                           *)
IsInside(node, p) == \A i \in Coords : node.min[i] <= p[i] /\ p[i] < node.max[i]

(* Node::getChildIndex                                                      *)
GetChildIndex(node, p) ==
    (IF p[1] >= node.center[1] THEN 1 ELSE 0) + (IF p[2] >= node.center[2] THEN 2 ELSE 0)
        + (IF p[3] >= node.center[3] THEN 4 ELSE 0)

(* The result of a call that throws, or whose recursion goes below the     *)
(* resolution of the model's coordinates                                   *)
Failed(what) == [q \in {<<-1>>} |-> what]

Threw(T) == <<-1>> \in DOMAIN T

(* what() of the error a call has thrown                                   *)
What(T) == IF Threw(T) THEN T[<<-1>>] ELSE ""

(* A call whose recursion does not end                                     *)
NeverReturns(T) == Threw(T) /\ T[<<-1>>] = "resolution"

(* A node whose center lies strictly between its faces                     *)
CanSplit(node) == \A i \in Coords : node.max[i] - node.min[i] >= 2

IsPrefix(p, q) == Len(p) <= Len(q) /\ SubSeq(q, 1, Len(p)) = p

ChildPaths(path) == {Append(path, childIndex) : childIndex \in ChildIndices}

(* The live part of a leaf's particle index array                          *)
Live(node) == SubSeq(node.particleIndices, 1, node.numParticles)

MirroredChild(node, childIndex) ==
    LET cmin == [i \in Coords |-> IF Bit(childIndex, i) = 0 THEN node.center[i] ELSE node.min[i]]
        cmax == [i \in Coords |-> IF Bit(childIndex, i) = 0 THEN node.max[i] ELSE node.center[i]]
    IN NewNode(<<cmin[1], cmin[2], cmin[3]>>, <<cmax[1], cmax[2], cmax[3]>>)

(* splitLeaf: the child with the given index, before the particles are     *)
(* distributed                                                             *)
NewChild(node, childIndex) ==
    LET cmin == [i \in Coords |-> IF Bit(childIndex, i) = 1 THEN node.center[i] ELSE node.min[i]]
        cmax == [i \in Coords |-> IF Bit(childIndex, i) = 1 THEN node.max[i] ELSE node.center[i]]
    IN NewNode(<<cmin[1], cmin[2], cmin[3]>>, <<cmax[1], cmax[2], cmax[3]>>)

SplitLeafEmpty(T, path, pos) ==
    <<>> @@ [q \in DOMAIN T \cup ChildPaths(path) |->
                IF q = path THEN [T[path] EXCEPT !.particleIndices = <<>>]
                ELSE IF q \in ChildPaths(path) THEN NewChild(T[path], q[Len(q)])
                ELSE T[q]]

(* Node::splitLeaf                                                          *)
SplitLeaf(T, path, pos) ==
    LET node == T[path]
        Goes(childIndex) ==
            LET Here(index) == GetChildIndex(node, pos[index]) = childIndex
            IN SelectSeq(Live(node), Here)
    IN <<>> @@ [q \in DOMAIN T \cup ChildPaths(path) |->
            IF q = path THEN [node EXCEPT !.particleIndices = <<>>]
            ELSE IF q \in ChildPaths(path)
                THEN [NewChild(node, q[Len(q)]) EXCEPT
                         !.numParticles = Len(Goes(q[Len(q)])),
                         !.particleIndices = Goes(q[Len(q)])]
            ELSE T[q]]

(* The children are kept                                                    *)
KeepSubtree(T, path) == T

(* Node::collapseSubtree                                                    *)
CollapseSubtree(T, path) ==
    LET Child(childIndex) == Live(T[Append(path, childIndex)])
        newParticleIndices == Child(0) \o Child(1) \o Child(2) \o Child(3) \o Child(4)
                                \o Child(5) \o Child(6) \o Child(7)
    IN <<>> @@ [q \in {r \in DOMAIN T : r = path \/ ~IsPrefix(path, r)} |->
            IF q = path THEN [T[q] EXCEPT !.particleIndices = newParticleIndices] ELSE T[q]]

(* Node::addParticle                                                        *)
RECURSIVE NodeAddParticle(_, _, _, _, _)
NodeAddParticle(T, path, particleIndex, position, pos) ==
    LET node == T[path]
    IN IF node.numParticles >= maxParticlesPerNode
          THEN IF node.numParticles = maxParticlesPerNode /\ ~CanSplit(node)
                  THEN Failed("resolution")
                  ELSE LET split == IF node.numParticles = maxParticlesPerNode
                                       THEN SplitLeaf(T, path, pos) ELSE T
                           childIndex == GetChildIndex(node, position)
                           added == NodeAddParticle(split, Append(path, childIndex),
                                                    particleIndex, position, pos)
                       IN IF Threw(added) THEN added
                          ELSE [added EXCEPT ![path].numParticles = @ + 1]
          ELSE [T EXCEPT ![path].particleIndices = Append(Live(node), particleIndex),
                         ![path].numParticles = @ + 1]

(* if(numParticles<=maxParticlesPerNode) collapseSubtree()                  *)
AtMostCapacity(numParticles) == numParticles <= maxParticlesPerNode

(* *piPtr=end[-1]; --numParticles                                           *)
RemoveAt(node, i) ==
    LET live == Live(node)
    IN [node EXCEPT !.particleIndices = SubSeq([live EXCEPT ![i] = live[Len(live)]],
                                               1, Len(live) - 1),
                    !.numParticles = @ - 1]

(* Node::removeParticle                                                     *)
RECURSIVE NodeRemoveParticle(_, _, _, _)
NodeRemoveParticle(T, path, particleIndex, position) ==
    LET node == T[path]
    IN IF node.numParticles > maxParticlesPerNode
          THEN LET childIndex == GetChildIndex(node, position)
                   removed == NodeRemoveParticle(T, Append(path, childIndex),
                                                 particleIndex, position)
               IN IF Threw(removed) THEN removed
                  ELSE [(IF node.numParticles = maxParticlesPerNode + 1
                            THEN CollapseSubtree(removed, path) ELSE removed)
                           EXCEPT ![path].numParticles = @ - 1]
          ELSE LET found == {i \in 1 .. node.numParticles :
                                node.particleIndices[i] = particleIndex}
               IN IF found = {} THEN Failed("not found")
                  ELSE [T EXCEPT ![path] =
                           RemoveAt(node, CHOOSE i \in found : \A j \in found : i <= j)]

(* while(particleParent!=0&&!particleParent->isInside(pos)): the paths of  *)
(* the ancestors that contain the position                                 *)
ContainingParents(T, path, position) ==
    {k \in 0 .. Len(path) - 1 : IsInside(T[SubSeq(path, 1, k)], position)}

(* Node::updateParticles; S is the tree and outOfDomainParticles           *)
RECURSIVE NodeUpdateParticles(_, _, _), UpdateChildren(_, _, _, _), UpdateLeaf(_, _, _, _)
UpdateLeaf(S, path, i, pos) ==
    IF Threw(S.tree) \/ i > S.tree[path].numParticles THEN S
    ELSE LET node == S.tree[path]
             index == node.particleIndices[i]
             removed == [S.tree EXCEPT ![path] = RemoveAt(node, i)]
             parents == ContainingParents(removed, path, pos[index])
             particleParent == SubSeq(path, 1, CHOOSE k \in parents : \A j \in parents : j <= k)
         IN IF IsInside(node, pos[index]) THEN UpdateLeaf(S, path, i + 1, pos)
            ELSE IF parents # {}
                THEN UpdateLeaf([tree |-> NodeAddParticle(removed, particleParent, index,
                                                          pos[index], pos),
                                 out |-> S.out], path, i, pos)
            ELSE UpdateLeaf([tree |-> removed, out |-> Append(S.out, index)], path, i, pos)

UpdateChildren(S, path, childIndex, pos) ==
    IF Threw(S.tree) \/ childIndex \notin ChildIndices THEN S
    ELSE UpdateChildren(NodeUpdateParticles(S, Append(path, childIndex), pos),
                        path, childIndex + 1, pos)

NodeUpdateParticles(S, path, pos) ==
    IF S.tree[path].numParticles > maxParticlesPerNode
        THEN LET U == UpdateChildren(S, path, 0, pos)
                 Count(childIndex) == U.tree[Append(path, childIndex)].numParticles
                 numParticles == Count(0) + Count(1) + Count(2) + Count(3) + Count(4)
                                    + Count(5) + Count(6) + Count(7)
                 counted == [U.tree EXCEPT ![path].numParticles = numParticles]
             IN IF Threw(U.tree) THEN U
                ELSE [tree |-> IF AtMostCapacity(numParticles)
                                  THEN CollapseSubtree(counted, path) ELSE counted,
                      out |-> U.out]
        ELSE UpdateLeaf(S, path, 1, pos)

(* ParticleOctree::tryShrink                                                *)
RECURSIVE TryShrink(_)
TryShrink(T) ==
    LET root == T[<<>>]
        used == {childIndex \in ChildIndices : T[<<childIndex>>].numParticles > 0}
        usedChild == CHOOSE childIndex \in used : TRUE
    IN IF root.numParticles > maxParticlesPerNode /\ Cardinality(used) = 1
          THEN TryShrink(<<>> @@
                 [q \in {<<>>} \cup {Tail(r) : r \in {s \in DOMAIN T :
                                                        Len(s) >= 2 /\ s[1] = usedChild}} |->
                    IF q = <<>>
                        THEN [root EXCEPT !.min = T[<<usedChild>>].min,
                                          !.max = T[<<usedChild>>].max,
                                          !.center = T[<<usedChild>>].center]
                        ELSE T[<<usedChild>> \o q]])
          ELSE T

GrownAboutCenter(root, newPosition) ==
    LET Up(i) == newPosition[i] >= root.center[i]
        Size(i) == root.max[i] - root.min[i]
        Min(i) == IF Up(i) THEN root.min[i] ELSE root.min[i] - Size(i)
        Max(i) == IF Up(i) THEN root.max[i] + Size(i) ELSE root.max[i]
    IN [min |-> <<Min(1), Min(2), Min(3)>>,
        max |-> <<Max(1), Max(2), Max(3)>>,
        center |-> root.center,
        rootChildIndex |-> (IF Up(1) THEN 0 ELSE 1) + (IF Up(2) THEN 0 ELSE 2)
                            + (IF Up(3) THEN 0 ELSE 4)]

(* ParticleOctree::addParticle: the new root node domain, its center and   *)
(* the index of the child that the root node becomes                       *)
Grown(root, newPosition) ==
    LET Up(i) == newPosition[i] >= root.center[i]
        Size(i) == root.max[i] - root.min[i]
        Min(i) == IF Up(i) THEN root.min[i] ELSE root.min[i] - Size(i)
        Max(i) == IF Up(i) THEN root.max[i] + Size(i) ELSE root.max[i]
        Center(i) == IF Up(i) THEN root.max[i] ELSE root.min[i]
    IN [min |-> <<Min(1), Min(2), Min(3)>>,
        max |-> <<Max(1), Max(2), Max(3)>>,
        center |-> <<Center(1), Center(2), Center(3)>>,
        rootChildIndex |-> (IF Up(1) THEN 0 ELSE 1) + (IF Up(2) THEN 0 ELSE 2)
                            + (IF Up(3) THEN 0 ELSE 4)]

(* ParticleOctree::addParticle: the loop that enlarges the octree until    *)
(* the new particle is inside its domain                                   *)
RECURSIVE Enlarge(_, _, _)
Enlarge(T, newPosition, pos) ==
    LET root == T[<<>>]
        grown == Grown(root, newPosition)
        min == grown.min
        max == grown.max
        center == grown.center
        rootChildIndex == grown.rootChildIndex
        newRoot == SplitLeaf([q \in {<<>>} |-> [NewNode(min, max) EXCEPT !.center = center]],
                             <<>>, pos)
        rootChild == newRoot[<<rootChildIndex>>]
    IN IF IsInside(root, newPosition) THEN T
       ELSE IF root.numParticles > maxParticlesPerNode
           THEN IF root.min # rootChild.min \/ root.max # rootChild.max
                   THEN Failed("domain")
                   ELSE Enlarge(<<>> @@
                          [q \in DOMAIN newRoot \cup
                                 {<<rootChildIndex>> \o r : r \in DOMAIN T} |->
                             IF q = <<>>
                                 THEN [newRoot[q] EXCEPT !.numParticles = root.numParticles]
                             ELSE IF q = <<rootChildIndex>>
                                 THEN [rootChild EXCEPT !.numParticles = root.numParticles]
                             ELSE IF q[1] = rootChildIndex THEN T[Tail(q)]
                             ELSE newRoot[q]],
                          newPosition, pos)
           ELSE Enlarge([T EXCEPT ![<<>>].min = min, ![<<>>].max = max,
                                  ![<<>>].center = center], newPosition, pos)

(* ParticleOctree::addParticle                                              *)
AddParticle(T, particleIndex, pos) ==
    LET newPosition == pos[particleIndex]
        min == Floor(newPosition)
        created == IF DOMAIN T = {}
                      THEN [q \in {<<>>} |->
                              NewNode(min, <<min[1] + UnitLength, min[2] + UnitLength,
                                             min[3] + UnitLength>>)]
                      ELSE T
        enlarged == Enlarge(created, newPosition, pos)
    IN IF Threw(enlarged) THEN enlarged
       ELSE NodeAddParticle(enlarged, <<>>, particleIndex, newPosition, pos)

RemoveParticleUnchecked(T, particleIndex, pos) ==
    IF DOMAIN T = {} THEN T
    ELSE LET removed == NodeRemoveParticle(T, <<>>, particleIndex, pos[particleIndex])
         IN IF Threw(removed) THEN removed ELSE TryShrink(removed)

(* ParticleOctree::removeParticle                                           *)
RemoveParticle(T, particleIndex, pos) ==
    IF DOMAIN T = {} THEN Failed("empty")
    ELSE LET removed == NodeRemoveParticle(T, <<>>, particleIndex, pos[particleIndex])
         IN IF Threw(removed) THEN removed ELSE TryShrink(removed)

(* while(!root->isInside(newPosition)) and                                 *)
(* if(root->numParticles>Node::maxParticlesPerNode): whether addParticle   *)
(* enlarges the octree, and whether by a new root node above an interior   *)
(* root or by the new domain of a leaf root                                *)
RootKind(T, newPosition) ==
    IF DOMAIN T = {} \/ IsInside(T[<<>>], newPosition) THEN {}
    ELSE IF T[<<>>].numParticles > maxParticlesPerNode THEN {"interior"}
    ELSE {"leaf"}

NoAddAll(S, out, pos) == S

\* for(oodpIt=outOfDomainParticles.begin();...) addParticle(*oodpIt)
(* S is the tree and the kinds of root node the calls have enlarged        *)
RECURSIVE AddAll(_, _, _)
AddAll(S, out, pos) ==
    IF Threw(S.tree) \/ out = <<>> THEN S
    ELSE AddAll([tree |-> AddParticle(S.tree, Head(out), pos),
                 enlargedFrom |-> S.enlargedFrom \cup RootKind(S.tree, pos[Head(out)])],
                Tail(out), pos)

(* root->updateParticles(particles,outOfDomainParticles)                    *)
Updated(T, pos) == NodeUpdateParticles([tree |-> T, out |-> <<>>], <<>>, pos)

(* ParticleOctree::updateParticles: the tree, the particles found outside  *)
(* its domain and the kinds of root node enlarged for them                 *)
UpdateParticles(T, pos) ==
    IF DOMAIN T = {} THEN [tree |-> T, out |-> <<>>, enlargedFrom |-> {}]
    ELSE LET U == Updated(T, pos)
             added == AddAll([tree |-> U.tree, enlargedFrom |-> {}], U.out, pos)
         IN [tree |-> IF Threw(added.tree) THEN added.tree ELSE TryShrink(added.tree),
             out |-> U.out,
             enlargedFrom |-> added.enlargedFrom]

(* setMaxParticlesPerNode is called, if at all, before any octree is       *)
(* created                                                                 *)
OctreeInit ==
    /\ maxParticlesPerNode \in 1 .. MaxParticlesPerNode
    /\ particlePosition = <<>>
    /\ octree = <<>>
    /\ octreeParticles = {}
    /\ outOfDomainParticles = <<>>
    /\ enlargedFrom = {}
    /\ thrown = ""

(* ParticleSystem::addParticle: the new particle gets the next index and   *)
(* is added to the octree.  When addParticle throws, the octree is the     *)
(* thrown error and nothing more is called on it.                          *)
ParticleSystemAddParticle(position) ==
    LET result == Cardinality(Created)
        pos == (result :> position) @@ particlePosition
        added == AddParticle(octree, result, pos)
    IN /\ ~Threw(octree)
       /\ result < MaxOctreeParticles
       /\ ~NeverReturns(added)
       /\ particlePosition' = pos
       /\ octree' = added
       /\ octreeParticles' = octreeParticles \cup {result}
       /\ outOfDomainParticles' = <<>>
       /\ enlargedFrom' = RootKind(octree, position)
       /\ thrown' = What(added)
       /\ UNCHANGED <<maxParticlesPerNode, simVars, srvVars, libVars>>

(* octree.removeParticle, of a particle that is in the octree or, while    *)
(* there is no root, of any index: root==0 is tested before the particle's *)
(* position is read.  When it throws the octree is as it was.              *)
OctreeRemoveParticle(particleIndex) ==
    LET removed == RemoveParticle(octree, particleIndex, particlePosition)
    IN /\ ~Threw(octree)
       /\ particleIndex \in octreeParticles \/ DOMAIN octree = {}
       /\ octree' = IF Threw(removed) THEN octree ELSE removed
       /\ octreeParticles' = IF Threw(removed) THEN octreeParticles
                             ELSE octreeParticles \ {particleIndex}
       /\ outOfDomainParticles' = <<>>
       /\ enlargedFrom' = {}
       /\ thrown' = What(removed)
       /\ UNCHANGED <<maxParticlesPerNode, particlePosition, simVars, srvVars, libVars>>

(* The position changes of one tick: some particles get another position   *)
Moved(pos, moves) == moves @@ pos

Moves ==
    UNION {[S -> Positions] : S \in {M \in SUBSET octreeParticles : Cardinality(M) <= MaxMoved}}

(* A tick of the particle system: enforceConstraints has written the new   *)
(* positions and calls octree.updateParticles(); an error addParticle      *)
(* throws ends the call                                                    *)
OctreeUpdateParticles(moves) ==
    LET pos == Moved(particlePosition, moves)
        updated == UpdateParticles(octree, pos)
    IN /\ ~Threw(octree)
       /\ ~NeverReturns(updated.tree)
       /\ particlePosition' = pos
       /\ octree' = updated.tree
       /\ outOfDomainParticles' = updated.out
       /\ enlargedFrom' = updated.enlargedFrom
       /\ thrown' = What(updated.tree)
       /\ UNCHANGED <<maxParticlesPerNode, octreeParticles, simVars, srvVars, libVars>>

OctreeNext ==
    \/ \E position \in Positions : ParticleSystemAddParticle(position)
    \/ \E particleIndex \in 0 .. MaxOctreeParticles - 1 : OctreeRemoveParticle(particleIndex)
    \/ \E moves \in Moves : OctreeUpdateParticles(moves)

(***************************************************************************)
(* ParticleSystem: Verlet integration and the relaxation of the distance   *)
(* constraints.  The particles are on the x axis, so that the length of a  *)
(* distance vector is the absolute value of its x component; a position is *)
(* a whole number of grid steps and a Scalar division rounds to the grid.  *)
(* The system has no box and no sphere constraints, as in the network      *)
(* simulator.                                                              *)
(***************************************************************************)
Abs(a) == IF a < 0 THEN -a ELSE a

Sgn(a) == IF a < 0 THEN -1 ELSE IF a > 0 THEN 1 ELSE 0

MaxOf(a, b) == IF a < b THEN b ELSE a

(* a / b for b > 0, rounded towards zero                                   *)
Quot(a, b) == Sgn(a) * (Abs(a) \div b)

InvMasses == {0, 1, 2}
StartPositions == {0, 5 * PositionUnit}
Velocities == {0, PositionUnit}
Gravities == {0, -PositionUnit}
Attenuations == {0, 1}
Dists == {2 * PositionUnit}
Strengths == {1}
Forces == {0, PositionUnit}

(* ParticleSystem::ParticleSystem, followed by setGravity, setAttenuation  *)
(* and setNumRelaxationIterations                                          *)
ParticleSystemInit ==
    /\ particleSystem \in [gravity : Gravities,
                           attenuation : Attenuations,
                           distConstraintScale : {1},
                           numRelaxationIterations : 1 .. MaxRelaxationIterations,
                           prevDt : {1},
                           invMass : {<<>>},
                           numDistConstraints : {<<>>},
                           pos : {<<>>},
                           prevPos : {<<>>},
                           distConstraints : {<<>>}]
    /\ relaxedFrom = <<>>
    /\ numTicks = 0

SystemParticles(ps) == DOMAIN ps.pos

(* ParticleSystem::addParticle, without the call of octree.addParticle     *)
AddedParticle(ps, newInvMass, newPosition, newVelocity) ==
    LET result == Cardinality(SystemParticles(ps))
    IN [ps EXCEPT !.invMass = (result :> newInvMass) @@ @,
                  !.numDistConstraints = (result :> 0) @@ @,
                  !.pos = (result :> newPosition) @@ @,
                  !.prevPos = (result :> newPosition - newVelocity * ps.prevDt) @@ @]

(* ParticleSystem::addDistConstraint                                       *)
AddedDistConstraint(ps, index0, index1, dist, strength) ==
    [ps EXCEPT !.distConstraints = Append(@, [index0 |-> index0, index1 |-> index1,
                                              dist |-> dist, strength |-> strength]),
               !.numDistConstraints = [i \in DOMAIN @ |->
                   @[i] + (IF i = index0 THEN 1 ELSE 0) + (IF i = index1 THEN 1 ELSE 0)]]

(* ParticleSystem::moveParticles with dt = prevDt: att is the attenuation  *)
(* and pc = dt*att/prevDt = att.  The new positions go to prevPos.         *)
MovedParticles(ps) ==
    LET att == ps.attenuation
        g == ps.gravity
    IN [ps EXCEPT !.prevPos = [i \in SystemParticles(ps) |->
                                  ps.pos[i] + (ps.pos[i] - ps.prevPos[i]) * att + g]]

(* ParticleSystem::forceParticle: prevPos[index]+=force*(invMass[index]*dt2) *)
ForceParticle(ps, index, force) ==
    [ps EXCEPT !.prevPos[index] = @ + force * ps.invMass[index]]

(* forceParticle for every particle, as innerUpdateLoopIteration calls it  *)
RECURSIVE ForcedParticles(_, _, _)
ForcedParticles(ps, forces, indices) ==
    IF indices = {} THEN ps
    ELSE LET index == CHOOSE i \in indices : TRUE
         IN ForcedParticles(ForceParticle(ps, index, forces[index]), forces, indices \ {index})

(* The distance vector d scaled by dScale, before dScale is divided by the *)
(* number of distance constraints: d*(1-dist/|d|)*strength*scale, or       *)
(* (1,0,0)*dist*strength*scale when the two particles coincide.            *)
ScaledDistance(dc, p, ps) ==
    LET d == p[dc.index1] - p[dc.index0]
    IN IF d # 0
       THEN (d - Sgn(d) * dc.dist) * dc.strength * ps.distConstraintScale
       ELSE dc.dist * dc.strength * ps.distConstraintScale

(* Both particles get the share of the other particle's inverse mass       *)
DistCorrectionByOtherMass(dc, p, ps) ==
    LET im0 == ps.invMass[dc.index0]
        im1 == ps.invMass[dc.index1]
        imSum == im0 + im1
        n == MaxOf(ps.numDistConstraints[dc.index0], ps.numDistConstraints[dc.index1])
        c == ScaledDistance(dc, p, ps)
    IN IF imSum > 0
       THEN [delta0 |-> Quot(c * im1, n * imSum), delta1 |-> -Quot(c * im0, n * imSum)]
       ELSE [delta0 |-> Quot(c, 2 * n), delta1 |-> -Quot(c, 2 * n)]

(* What one distance constraint adds to pds[index0] and to pds[index1]     *)
DistCorrection(dc, p, ps) ==
    LET im0 == ps.invMass[dc.index0]
        im1 == ps.invMass[dc.index1]
        imSum == im0 + im1
        n == MaxOf(ps.numDistConstraints[dc.index0], ps.numDistConstraints[dc.index1])
        c == ScaledDistance(dc, p, ps)
    IN IF imSum > 0
       THEN [delta0 |-> Quot(c * im0, n * imSum), delta1 |-> -Quot(c * im1, n * imSum)]
       ELSE [delta0 |-> Quot(c, 2 * n), delta1 |-> -Quot(c, 2 * n)]

(* The particle position update vectors pds of one relaxation iteration    *)
RECURSIVE ParticleDeltas(_, _, _)
ParticleDeltas(dcs, p, ps) ==
    IF dcs = <<>> THEN [i \in DOMAIN p |-> 0]
    ELSE LET dc == Head(dcs)
             r == DistCorrection(dc, p, ps)
             pds == ParticleDeltas(Tail(dcs), p, ps)
         IN [i \in DOMAIN p |-> pds[i] + (IF i = dc.index0 THEN r.delta0 ELSE 0)
                                       + (IF i = dc.index1 THEN r.delta1 ELSE 0)]

(* The relaxation loop: each iteration adds its deltas to the positions    *)
RECURSIVE Relaxed(_, _, _)
Relaxed(p, ps, iterations) ==
    IF iterations = 0 THEN p
    ELSE LET pds == ParticleDeltas(ps.distConstraints, p, ps)
         IN Relaxed([i \in DOMAIN p |-> p[i] + pds[i]], ps, iterations - 1)

(* ParticleSystem::enforceConstraints, without the call of                 *)
(* octree.updateParticles: swap pos and prevPos, then relax                *)
EnforcedConstraints(ps) ==
    [ps EXCEPT !.pos = Relaxed(ps.prevPos, ps, ps.numRelaxationIterations),
               !.prevPos = ps.pos]

(* The particles are created before the first tick                         *)
AddSystemParticle(newInvMass, newPosition, newVelocity) ==
    /\ numTicks = 0
    /\ Cardinality(SystemParticles(particleSystem)) < MaxSystemParticles
    /\ particleSystem' = AddedParticle(particleSystem, newInvMass, newPosition, newVelocity)
    /\ UNCHANGED <<relaxedFrom, numTicks, simVars, srvVars, octVars, netVars, timerVars, toolVars, sessVars>>

AddDistConstraint(index0, index1, dist, strength) ==
    /\ numTicks = 0
    /\ Len(particleSystem.distConstraints) < MaxDistConstraints
    /\ index0 \in SystemParticles(particleSystem)
    /\ index1 \in SystemParticles(particleSystem)
    /\ index0 # index1
    /\ particleSystem' = AddedDistConstraint(particleSystem, index0, index1, dist, strength)
    /\ UNCHANGED <<relaxedFrom, numTicks, simVars, srvVars, octVars, netVars, timerVars, toolVars, sessVars>>

(* ParticleSystem::setParticleInvMass: invMass[index]=newInvMass           *)
SetParticleInvMass(index, newInvMass) ==
    /\ index \in SystemParticles(particleSystem)
    /\ particleSystem' = [particleSystem EXCEPT !.invMass[index] = newInvMass]
    /\ UNCHANGED <<relaxedFrom, numTicks, simVars, srvVars, octVars, netVars, timerVars, toolVars, sessVars>>

(* One tick: moveParticles, forceParticle for every particle, and          *)
(* enforceConstraints                                                      *)
Tick(forces) ==
    LET moved == ForcedParticles(MovedParticles(particleSystem), forces,
                                 SystemParticles(particleSystem))
    IN /\ numTicks < MaxTicks
       /\ particleSystem' = EnforcedConstraints(moved)
       /\ relaxedFrom' = moved.prevPos
       /\ numTicks' = numTicks + 1
       /\ UNCHANGED <<simVars, srvVars, octVars, netVars, timerVars, toolVars, sessVars>>

ParticleSystemNext ==
    \/ \E newInvMass \in InvMasses, newPosition \in StartPositions, newVelocity \in Velocities :
           AddSystemParticle(newInvMass, newPosition, newVelocity)
    \/ \E index0, index1 \in 0 .. MaxSystemParticles - 1, dist \in Dists, strength \in Strengths :
           AddDistConstraint(index0, index1, dist, strength)
    \/ \E index \in 0 .. MaxSystemParticles - 1, newInvMass \in InvMasses :
           SetParticleInvMass(index, newInvMass)
    \/ \E forces \in [SystemParticles(particleSystem) -> Forces] : Tick(forces)

(***************************************************************************)
(* Network: the nodes, the links between them, the selection and the node  *)
(* colors.  A node color is the node's distance from the selection,        *)
(* NumNodes for the grey of a node no selected node is connected to, or -1 *)
(* for the color of the node's own color property.                         *)
(***************************************************************************)
Nodes == 0 .. NumNodes - 1

(* The source and target of a link; which end is the source makes no       *)
(* difference to the linked nodes of either end                            *)
LinkEnds == {e \in Nodes \X Nodes : e[1] <= e[2]}

LinkLists == UNION {[1 .. n -> LinkEnds] : n \in 0 .. MaxLinks}

(* Network::Network, "Connect the two linked nodes", for each link in turn *)
RECURSIVE LinkedNodes(_)
LinkedNodes(ls) ==
    IF ls = <<>> THEN [n \in Nodes |-> <<>>]
    ELSE LET sourceIndex == ls[Len(ls)][1]
             targetIndex == ls[Len(ls)][2]
             earlier == LinkedNodes(SubSeq(ls, 1, Len(ls) - 1))
             source == [earlier EXCEPT ![sourceIndex] = Append(@, targetIndex)]
         IN [source EXCEPT ![targetIndex] = Append(@, sourceIndex)]

(* Network::mapNodeColorsFromNode                                          *)
NodeColorsFromNode == [n \in Nodes |-> -1]

(* The selected nodes in the order the selection's iterator visits them    *)
RECURSIVE SelectedNodes(_)
SelectedNodes(sel) ==
    IF sel = {} THEN <<>>
    ELSE LET first == CHOOSE n \in sel : \A m \in sel : n <= m
         IN <<first>> \o SelectedNodes(sel \ {first})

(* Only the first linked node is looked at                                  *)
VisitFirstLinkedNode(t, lns, nodeDistance) ==
    IF lns = <<>> \/ t.thrown THEN t
    ELSE LET linkedNodeIndex == Head(lns)
         IN IF t.nodeDistances[linkedNodeIndex] = NumNodes
            THEN [t EXCEPT !.nodeDistances[linkedNodeIndex] = nodeDistance + 1,
                           !.queue = Append(@, linkedNodeIndex)]
            ELSE t

(* "Assign distances to all nodes connected to the next node in the queue" *)
RECURSIVE VisitLinkedNodes(_, _, _)
VisitLinkedNodes(t, lns, nodeDistance) ==
    IF lns = <<>> \/ t.thrown THEN t
    ELSE LET linkedNodeIndex == Head(lns)
         IN IF t.nodeDistances[linkedNodeIndex] = NumNodes
            THEN VisitLinkedNodes([t EXCEPT !.nodeDistances[linkedNodeIndex] = nodeDistance + 1,
                                            !.queue = Append(@, linkedNodeIndex)],
                                  Tail(lns), nodeDistance)
            ELSE IF t.nodeDistances[linkedNodeIndex] > nodeDistance + 1
                 THEN [t EXCEPT !.thrown = TRUE]
                 ELSE VisitLinkedNodes(t, Tail(lns), nodeDistance)

(* "Traverse connected nodes in breadth-first order"                       *)
RECURSIVE Traverse(_)
Traverse(t) ==
    IF t.queue = <<>> \/ t.thrown THEN t
    ELSE LET nodeIndex == Head(t.queue)
         IN Traverse(VisitLinkedNodes([t EXCEPT !.queue = Tail(@)],
                                      linkedNodes[nodeIndex], t.nodeDistances[nodeIndex]))

(* Network::mapNodeColorsFromSelectionDistance: the new node colors; when  *)
(* the traversal throws the colors stay as they are                        *)
NodeColorsFromSelectionDistance(sel) ==
    LET t == Traverse([nodeDistances |-> [n \in Nodes |-> IF n \in sel THEN 0 ELSE NumNodes],
                       queue |-> SelectedNodes(sel),
                       thrown |-> FALSE])
    IN IF t.thrown THEN nodeColors ELSE t.nodeDistances

(* The nodes in node.getLinkedNodes()                                      *)
LinkedTo(nodeIndex) ==
    {linkedNodes[nodeIndex][k] : k \in DOMAIN linkedNodes[nodeIndex]}

(* The selection grows through every link it can reach                     *)
RECURSIVE GrownToComponent(_)
GrownToComponent(sel) ==
    LET grown == sel \cup UNION {LinkedTo(nodeIndex) : nodeIndex \in sel}
    IN IF grown = sel THEN sel ELSE GrownToComponent(grown)

(* Network::growSelection: the nodes linked to the nodes of selectedNodes, *)
(* the selection as it is when the call begins, are selected               *)
GrownSelection(sel) ==
    sel \cup UNION {LinkedTo(nodeIndex) : nodeIndex \in sel}

(* No node is marked for deselection                                       *)
NotShrunkSelection(sel) == sel

(* Network::shrinkSelection: the nodes with a linked node that is not      *)
(* selected are collected in deselectNodes and removed afterwards          *)
ShrunkSelection(sel) ==
    LET deselectNodes == {nodeIndex \in sel : \E linkedNodeIndex \in LinkedTo(nodeIndex) :
                                                  linkedNodeIndex \notin sel}
    IN sel \ deselectNodes

(* No growSelection call is the last call or the one before a last         *)
(* shrinkSelection call                                                    *)
NotGrown == [valid |-> FALSE, selection |-> {}]

(* Network::Network: the links are parsed and the linked nodes connected   *)
NetworkInit ==
    /\ links \in LinkLists
    /\ linkedNodes = LinkedNodes(links)
    /\ selection = {}
    /\ nodeColors = NodeColorsFromNode
    /\ lastCall = ""
    /\ selectionBefore = {}
    /\ grownFrom = NotGrown

ClearSelection ==
    /\ selection' = {}
    /\ nodeColors' = NodeColorsFromNode
    /\ lastCall' = "clearSelection"
    /\ selectionBefore' = selection
    /\ grownFrom' = NotGrown
    /\ UNCHANGED <<links, linkedNodes, simVars, srvVars, octVars, psVars, timerVars, toolVars, sessVars>>

SetSelection(nodeIndex) ==
    /\ selection' = {nodeIndex}
    /\ nodeColors' = NodeColorsFromSelectionDistance({nodeIndex})
    /\ lastCall' = "setSelection"
    /\ selectionBefore' = selection
    /\ grownFrom' = NotGrown
    /\ UNCHANGED <<links, linkedNodes, simVars, srvVars, octVars, psVars, timerVars, toolVars, sessVars>>

SelectNode(nodeIndex) ==
    /\ selection' = selection \cup {nodeIndex}
    /\ nodeColors' = NodeColorsFromSelectionDistance(selection \cup {nodeIndex})
    /\ lastCall' = "selectNode"
    /\ selectionBefore' = selection
    /\ grownFrom' = NotGrown
    /\ UNCHANGED <<links, linkedNodes, simVars, srvVars, octVars, psVars, timerVars, toolVars, sessVars>>

DeselectNode(nodeIndex) ==
    /\ selection' = selection \ {nodeIndex}
    /\ nodeColors' = IF selection \ {nodeIndex} # {}
                     THEN NodeColorsFromSelectionDistance(selection \ {nodeIndex})
                     ELSE NodeColorsFromNode
    /\ lastCall' = "deselectNode"
    /\ selectionBefore' = selection
    /\ grownFrom' = NotGrown
    /\ UNCHANGED <<links, linkedNodes, simVars, srvVars, octVars, psVars, timerVars, toolVars, sessVars>>

GrowSelection ==
    /\ selection' = GrownSelection(selection)
    /\ nodeColors' = NodeColorsFromSelectionDistance(GrownSelection(selection))
    /\ lastCall' = "growSelection"
    /\ selectionBefore' = selection
    /\ grownFrom' = [valid |-> TRUE, selection |-> selection]
    /\ UNCHANGED <<links, linkedNodes, simVars, srvVars, octVars, psVars, timerVars, toolVars, sessVars>>

ShrinkSelection ==
    /\ selection' = ShrunkSelection(selection)
    /\ nodeColors' = NodeColorsFromSelectionDistance(ShrunkSelection(selection))
    /\ lastCall' = "shrinkSelection"
    /\ selectionBefore' = selection
    /\ grownFrom' = IF lastCall = "growSelection" THEN grownFrom ELSE NotGrown
    /\ UNCHANGED <<links, linkedNodes, simVars, srvVars, octVars, psVars, timerVars, toolVars, sessVars>>

NetworkNext ==
    \/ ClearSelection
    \/ \E nodeIndex \in Nodes : SetSelection(nodeIndex)
    \/ \E nodeIndex \in Nodes : SelectNode(nodeIndex)
    \/ \E nodeIndex \in Nodes : DeselectNode(nodeIndex)
    \/ GrowSelection
    \/ ShrinkSelection

(***************************************************************************)
(* The update timer of simulationThreadMethod.  Time is a whole number of  *)
(* clock ticks; one turn of the simulation loop takes at least one.        *)
(***************************************************************************)
UpdateIntervals == 2 .. MaxUpdateInterval
Elapsed == 1 .. MaxElapsed

(* The update timer is restarted although the missed deadline is more than *)
(* one interval in the past: nextUpdateTime+=updateInterval only           *)
AdvancedOnly(deadline, now, interval) ==
    [nextUpdateTime |-> deadline + interval, restarted |-> FALSE]

(* "Advance the update timer" and "Check if we missed a time step"         *)
Advanced(deadline, now, interval) ==
    IF now >= deadline + interval
    THEN [nextUpdateTime |-> now, restarted |-> TRUE]
    ELSE [nextUpdateTime |-> deadline + interval, restarted |-> FALSE]

(* The last updates, at most three                                         *)
Recent(updates) ==
    IF Len(updates) > 3 THEN SubSeq(updates, Len(updates) - 2, Len(updates)) ELSE updates

(* NetworkSimulator::NetworkSimulator sets updateInterval, and the         *)
(* simulation thread starts its timer at the current time                  *)
UpdateTimerInit ==
    /\ currentTime = 0
    /\ nextUpdateTime = 0
    /\ updateInterval \in UpdateIntervals
    /\ lastUpdates = <<>>

(* NetworkSimulator::setUpdateInterval                                     *)
SetUpdateInterval(newUpdateInterval) ==
    /\ updateInterval' = newUpdateInterval
    /\ UNCHANGED <<currentTime, nextUpdateTime, lastUpdates,
                   simVars, srvVars, octVars, psVars, netVars, toolVars, sessVars>>

(* One turn of the simulation loop: the pause check, the commands and the  *)
(* update step take some time, then "Check if it's time to send a          *)
(* simulation update"                                                      *)
SimulationTurn(elapsed) ==
    LET now == currentTime + elapsed
        advanced == Advanced(nextUpdateTime, now, updateInterval)
    IN /\ now <= MaxTime
       /\ currentTime' = now
       /\ IF now >= nextUpdateTime
          THEN /\ lastUpdates' = Recent(Append(lastUpdates,
                                     [time |-> now, interval |-> updateInterval,
                                      restarted |-> advanced.restarted]))
               /\ nextUpdateTime' = advanced.nextUpdateTime
          ELSE UNCHANGED <<lastUpdates, nextUpdateTime>>
       /\ UNCHANGED <<updateInterval, simVars, srvVars, octVars, psVars, netVars, toolVars, sessVars>>

UpdateTimerNext ==
    \/ \E newUpdateInterval \in UpdateIntervals : SetUpdateInterval(newUpdateInterval)
    \/ \E elapsed \in Elapsed : SimulationTurn(elapsed)

(***************************************************************************)
(* NetworkViewerServer, the NetworkViewerClients, and the simulator the    *)
(* server holds.  The server's handlers run on one thread, so each is one  *)
(* step; the simulator's simulation thread runs beside them.  Selection    *)
(* and label notifications are outside this part of the model.             *)
(***************************************************************************)
AllClients == 1 .. MaxClients
Particles == 0 .. NumParticles - 1
DragIds == 1 .. MaxDragId

(* The version numbers a request message can carry                         *)
Versions == 0 .. MaxLoads

(* A graph file: n if the n-th file loaded parses, -n if it is malformed     *)
IsValid(file) == file > 0

(* do ++networkVersion; while(networkVersion==0);                          *)
NextVersion(v) ==
    IF (v + 1) % VersionModulus = 0 THEN 1 ELSE (v + 1) % VersionModulus

\* simulator=new NetworkSimulator(...): its threads are started, it is not paused
NewSimulator ==
    [pauseSimulationThread |-> FALSE,
     simulationCommands |-> <<>>,
     scs |-> <<>>,
     pc |-> "pause",
     selection |-> {},
     invMass |-> [p \in Particles |-> InitialInvMass],
     nodeDrags |-> [p \in Particles |-> FALSE],
     activeDrags |-> {}]

NewClient == [activeDrags |-> {}]

NewViewer == [networkVersion |-> 0, network |-> 0, downloadingVersion |-> 0, failedLoad |-> 0]

ServerInit ==
    /\ clients = {}
    /\ numConnections = 0
    /\ nvClient = [c \in AllClients |-> NewClient]
    /\ networkVersion = 0
    /\ networkFile = 0
    /\ network = 0
    /\ simulator = 0
    /\ sim = NewSimulator
    /\ jobs = {}
    /\ failedLoad = 0
    /\ viewer = [c \in AllClients |-> NewViewer]
    /\ viewerJobs = {}
    /\ toServer = [c \in AllClients |-> <<>>]
    /\ toClient = [c \in AllClients |-> <<>>]
    /\ numLoads = 0
    /\ numRequests = 0

(***************************************************************************)
(* The simulation commands and their execute() methods.                    *)
(***************************************************************************)
Command(op, clientId, dragId, node, mode) ==
    [op |-> op, clientId |-> clientId, dragId |-> dragId, node |-> node, mode |-> mode]

(* queueCommand(new ...Command(...))                                        *)
Queue(ns, command) ==
    [ns EXCEPT !.simulationCommands = PushBack(@, command)]

(* SelectNodeCommand::execute                                               *)
SelectNodeExecute(ns, cmd) ==
    [ns EXCEPT !.selection =
        CASE cmd.mode = 0 -> @ \cup {cmd.node}
          [] cmd.mode = 1 -> @ \ {cmd.node}
          [] cmd.mode = 2 -> IF cmd.node \in @ THEN @ \ {cmd.node} ELSE @ \cup {cmd.node}
          [] OTHER -> @]

(* ChangeSelectionCommand::execute, on a network without links, where      *)
(* growSelection and shrinkSelection find no linked node                   *)
ChangeSelectionExecute(ns, cmd) ==
    [ns EXCEPT !.selection = IF cmd.mode = 0 THEN {} ELSE @]

AlwaysDraggable(nodeDrags, nodeIndex) == TRUE

(* dragParticle: if(!nodeDrags[nodeIndex])                                  *)
NotInAnotherDrag(nodeDrags, nodeIndex) == ~nodeDrags[nodeIndex]

(* The active drag state with the given ClientDragID, if there is one      *)
FindDrags(ns, clientId, dragId) ==
    {ad \in ns.activeDrags : ad.clientId = clientId /\ ad.dragId = dragId}

(* The active drag state stays in the set when no particle was picked      *)
DragStartKeepsEmptyDrag(ns, cmd) ==
    LET found == FindDrags(ns, cmd.clientId, cmd.dragId)
        old == UNION {ad.draggedParticles : ad \in found}
        picked == IF cmd.node \in ns.selection THEN ns.selection ELSE {cmd.node}
        added == {p \in picked : NotInAnotherDrag(ns.nodeDrags, p)}
        dps == old \cup {[index |-> p, savedInvMass |-> ns.invMass[p]] : p \in added}
        ad == [clientId |-> cmd.clientId, dragId |-> cmd.dragId,
               dragTransform |-> "initial", draggedParticles |-> dps]
    IN [ns EXCEPT
            !.invMass = [p \in Particles |-> IF p \in added THEN 0 ELSE @[p]],
            !.nodeDrags = [p \in Particles |-> IF p \in added THEN TRUE ELSE @[p]],
            !.activeDrags = (@ \ found) \cup {ad}]

(* DragStartCommand::execute                                                *)
DragStartExecute(ns, cmd) ==
    LET found == FindDrags(ns, cmd.clientId, cmd.dragId)
        old == UNION {ad.draggedParticles : ad \in found}
        picked == IF cmd.node \in ns.selection THEN ns.selection ELSE {cmd.node}
        added == {p \in picked : NotInAnotherDrag(ns.nodeDrags, p)}
        dps == old \cup {[index |-> p, savedInvMass |-> ns.invMass[p]] : p \in added}
        ad == [clientId |-> cmd.clientId, dragId |-> cmd.dragId,
               dragTransform |-> "initial", draggedParticles |-> dps]
    IN [ns EXCEPT
            !.invMass = [p \in Particles |-> IF p \in added THEN 0 ELSE @[p]],
            !.nodeDrags = [p \in Particles |-> IF p \in added THEN TRUE ELSE @[p]],
            !.activeDrags = IF dps = {} THEN @ \ found ELSE (@ \ found) \cup {ad}]

(* DragCommand::execute                                                     *)
DragExecute(ns, cmd) ==
    LET found == FindDrags(ns, cmd.clientId, cmd.dragId)
    IN [ns EXCEPT !.activeDrags =
            (@ \ found) \cup {[ad EXCEPT !.dragTransform = "moved"] : ad \in found}]

(* DragStopCommand::execute                                                 *)
DragStopExecute(ns, cmd) ==
    LET found == FindDrags(ns, cmd.clientId, cmd.dragId)
        dps == UNION {ad.draggedParticles : ad \in found}
        restored == {dp.index : dp \in dps}
    IN [ns EXCEPT
            !.invMass = [p \in Particles |->
                            IF p \in restored
                                THEN (CHOOSE dp \in dps : dp.index = p).savedInvMass
                                ELSE @[p]],
            !.nodeDrags = [p \in Particles |-> IF p \in restored THEN FALSE ELSE @[p]],
            !.activeDrags = @ \ found]

Execute(ns, cmd) ==
    CASE cmd.op = "selectNode" -> SelectNodeExecute(ns, cmd)
      [] cmd.op = "dragStart" -> DragStartExecute(ns, cmd)
      [] cmd.op = "drag" -> DragExecute(ns, cmd)
      [] cmd.op = "dragStop" -> DragStopExecute(ns, cmd)
      [] cmd.op = "changeSelection" -> ChangeSelectionExecute(ns, cmd)

(* NetworkSimulator::pause                                                  *)
PauseSimulator(ns) == [ns EXCEPT !.pauseSimulationThread = TRUE]

(* NetworkSimulator::resume                                                 *)
ResumeSimulator(ns) ==
    [ns EXCEPT !.pauseSimulationThread = FALSE,
                !.pc = IF @ = "pausewait" THEN "pause" ELSE @]

(***************************************************************************)
(* The simulation thread of the simulator the server holds.                *)
(***************************************************************************)
srvOther == <<clients, numConnections, nvClient, networkVersion, networkFile, network,
              jobs, failedLoad, viewer, viewerJobs, toServer, toClient, numLoads, numRequests>>

(* while(pauseSimulationThread) pauseSimulationThreadCond.wait(...)         *)
TickPauseCheck ==
    /\ simulator # 0
    /\ sim.pc = "pause"
    /\ sim' = [sim EXCEPT !.pc =
                        IF sim.pauseSimulationThread THEN "pausewait" ELSE "swapq"]
    /\ UNCHANGED <<srvOther, simulator, simVars, octVars, libVars>>

(* std::swap(simulationCommands,scs)                                        *)
TickSwapCommands ==
    /\ simulator # 0
    /\ sim.pc = "swapq"
    /\ sim' = [sim EXCEPT !.scs = sim.simulationCommands,
                                      !.simulationCommands = <<>>,
                                      !.pc = "exec"]
    /\ UNCHANGED <<srvOther, simulator, simVars, octVars, libVars>>

\* scIt->execute(this); delete scIt
TickExecute ==
    /\ simulator # 0
    /\ sim.pc = "exec"
    /\ sim.scs # <<>>
    /\ sim' = [Execute(sim, Head(sim.scs)) EXCEPT !.scs = Tail(sim.scs)]
    /\ UNCHANGED <<srvOther, simulator, simVars, octVars, libVars>>

(* The rest of the tick: drags applied, physics step, snapshot, loop test   *)
TickStep ==
    /\ simulator # 0
    /\ sim.pc = "exec"
    /\ sim.scs = <<>>
    /\ sim' = [sim EXCEPT !.pc = "pause"]
    /\ UNCHANGED <<srvOther, simulator, simVars, octVars, libVars>>

(***************************************************************************)
(* NetworkViewerServer                                                     *)
(***************************************************************************)
ClientConnected ==
    /\ numConnections < MaxClients
    /\ LET c == numConnections + 1
       IN /\ sim' = IF simulator # 0 /\ clients = {} THEN ResumeSimulator(sim) ELSE sim
          /\ clients' = clients \cup {c}
          /\ numConnections' = c
          /\ nvClient' = [nvClient EXCEPT ![c] = NewClient]
          /\ viewer' = [viewer EXCEPT ![c] = NewViewer]
          /\ toClient' = [toClient EXCEPT ![c] =
                            IF networkFile # 0
                                THEN <<[version |-> networkVersion, file |-> networkFile]>>
                                ELSE <<>>]
    /\ UNCHANGED <<networkVersion, networkFile, network, simulator, jobs, failedLoad,
                   viewerJobs, toServer, numLoads, numRequests, simVars, octVars, libVars>>

NoDragStops(clientId, drags) == <<>>

(* for(adIt=nvClient->activeDrags.begin();...) simulator->dragStop(clientId,adIt->getSource()) *)
RECURSIVE DragStops(_, _)
DragStops(clientId, drags) ==
    IF drags = {} THEN <<>>
    ELSE LET d == CHOOSE x \in drags : \A y \in drags : x <= y
         IN <<Command("dragStop", clientId, d, 0, 0)>> \o DragStops(clientId, drags \ {d})

ClientDisconnected(c) ==
    /\ c \in clients
    /\ clients' = clients \ {c}
    /\ sim' =
         IF simulator = 0 THEN sim
         ELSE LET stops == DragStops(c, nvClient[c].activeDrags)
                  queued == [sim EXCEPT !.simulationCommands = @ \o stops]
              IN IF clients' = {} THEN PauseSimulator(queued) ELSE queued
    /\ nvClient' = [nvClient EXCEPT ![c] = NewClient]
    /\ viewer' = [viewer EXCEPT ![c] = NewViewer]
    /\ viewerJobs' = {j \in viewerJobs : j.client # c}
    /\ toServer' = [toServer EXCEPT ![c] = <<>>]
    /\ toClient' = [toClient EXCEPT ![c] = <<>>]
    /\ UNCHANGED <<numConnections, networkVersion, networkFile, network, simulator, jobs,
                   failedLoad, numLoads, numRequests, simVars, octVars, libVars>>

LoadNetworkRequestCallback(c) ==
    /\ c \in clients
    /\ toServer[c] # <<>>
    /\ LET msg == Head(toServer[c])
       IN /\ toServer' = [toServer EXCEPT ![c] = Tail(@)]
          /\ IF msg.version = networkVersion
                THEN /\ nvClient' = [d \in AllClients |->
                                        IF d \in clients THEN [nvClient[d] EXCEPT !.activeDrags = {}]
                                        ELSE nvClient[d]]
                     /\ networkVersion' = NextVersion(networkVersion)
                     /\ simulator' = 0
                     /\ sim' = NewSimulator
                     /\ network' = 0
                     /\ networkFile' = 0
                     /\ jobs' = jobs \cup {[file |-> msg.file, prevNetwork |-> network]}
                     /\ failedLoad' = 0
                     /\ toClient' = [d \in AllClients |->
                                        IF d \in clients \ {c}
                                            THEN Append(toClient[d],
                                                        [version |-> NextVersion(networkVersion),
                                                         file |-> msg.file])
                                            ELSE toClient[d]]
                ELSE UNCHANGED <<nvClient, networkVersion, simulator, sim, network, networkFile,
                                 jobs, failedLoad, toClient>>
    /\ UNCHANGED <<clients, numConnections, viewer, viewerJobs, numLoads, numRequests, simVars, octVars, libVars>>

(* ReadNetworkJob::operator() has run; readNetworkJobCompleteCallback       *)
ReadNetworkJobCompleteCallback(job) ==
    /\ job \in jobs
    /\ networkFile' = job.file
    /\ network' = IF IsValid(job.file) THEN job.file ELSE 0
    /\ simulator' = IF IsValid(job.file) THEN job.file ELSE 0
    /\ sim' = NewSimulator
    /\ jobs' = jobs \ {job}
    /\ failedLoad' = IF IsValid(job.file) THEN 0 ELSE job.prevNetwork
    /\ UNCHANGED <<clients, numConnections, nvClient, networkVersion, viewer, viewerJobs,
                   toServer, toClient, numLoads, numRequests, simVars, octVars, libVars>>

SelectNodeRequestCallback(c, version, nodeIndex, mode) ==
    /\ c \in clients
    /\ numRequests < MaxRequests
    /\ version = networkVersion /\ simulator # 0
    /\ sim' = Queue(sim, Command("selectNode", 0, 0, nodeIndex, mode))
    /\ numRequests' = numRequests + 1
    /\ UNCHANGED <<clients, numConnections, nvClient, networkVersion, networkFile, network,
                   simulator, jobs, failedLoad, viewer, viewerJobs, toServer, toClient, numLoads,
                   simVars, octVars, libVars>>

DragStartRequestCallback(c, version, dragId, nodeIndex) ==
    /\ c \in clients
    /\ numRequests < MaxRequests
    /\ version = networkVersion /\ simulator # 0
    /\ nvClient' = [nvClient EXCEPT ![c].activeDrags = @ \cup {dragId}]
    /\ sim' = Queue(sim, Command("dragStart", c, dragId, nodeIndex, 0))
    /\ numRequests' = numRequests + 1
    /\ UNCHANGED <<clients, numConnections, networkVersion, networkFile, network, simulator,
                   jobs, failedLoad, viewer, viewerJobs, toServer, toClient, numLoads, simVars, octVars, libVars>>

DragRequestCallback(c, version, dragId) ==
    /\ c \in clients
    /\ numRequests < MaxRequests
    /\ version = networkVersion /\ simulator # 0
    /\ dragId \in nvClient[c].activeDrags
    /\ sim' = Queue(sim, Command("drag", c, dragId, 0, 0))
    /\ numRequests' = numRequests + 1
    /\ UNCHANGED <<clients, numConnections, nvClient, networkVersion, networkFile, network,
                   simulator, jobs, failedLoad, viewer, viewerJobs, toServer, toClient, numLoads,
                   simVars, octVars, libVars>>

DragStopRequestCallback(c, version, dragId) ==
    /\ c \in clients
    /\ numRequests < MaxRequests
    /\ version = networkVersion /\ simulator # 0
    /\ nvClient' = [nvClient EXCEPT ![c].activeDrags = @ \ {dragId}]
    /\ sim' = Queue(sim, Command("dragStop", c, dragId, 0, 0))
    /\ numRequests' = numRequests + 1
    /\ UNCHANGED <<clients, numConnections, networkVersion, networkFile, network, simulator,
                   jobs, failedLoad, viewer, viewerJobs, toServer, toClient, numLoads, simVars, octVars, libVars>>

(***************************************************************************)
(* NetworkViewerClient                                                     *)
(***************************************************************************)
LoadNetwork(c, ok) ==
    /\ c \in clients
    /\ numLoads < MaxLoads
    /\ LET file == IF ok THEN numLoads + 1 ELSE -(numLoads + 1)
           version == NextVersion(viewer[c].networkVersion)
       IN /\ toServer' = [toServer EXCEPT ![c] =
                            Append(@, [version |-> viewer[c].networkVersion, file |-> file])]
          /\ viewer' = [viewer EXCEPT ![c].networkVersion = version,
                                      ![c].downloadingVersion = version]
          /\ viewerJobs' = viewerJobs \cup {[client |-> c, networkVersion |-> version, file |-> file]}
    /\ numLoads' = numLoads + 1
    /\ UNCHANGED <<clients, numConnections, nvClient, networkVersion, networkFile, network,
                   simulator, sim, jobs, failedLoad, toClient, numRequests, simVars, octVars, libVars>>

LoadNetworkNotificationCallback(c) ==
    /\ c \in clients
    /\ toClient[c] # <<>>
    /\ LET msg == Head(toClient[c])
       IN /\ toClient' = [toClient EXCEPT ![c] = Tail(@)]
          /\ viewer' = [viewer EXCEPT ![c].downloadingVersion = msg.version]
          /\ viewerJobs' = viewerJobs \cup
                {[client |-> c, networkVersion |-> msg.version, file |-> msg.file]}
    /\ UNCHANGED <<clients, numConnections, nvClient, networkVersion, networkFile, network,
                   simulator, sim, jobs, failedLoad, toServer, numLoads, numRequests, simVars, octVars, libVars>>

(* ReadNetworkJob::operator() has run; loadNetworkCompleteNotificationCallback *)
LoadNetworkCompleteNotificationCallback(job) ==
    /\ job \in viewerJobs
    /\ viewerJobs' = viewerJobs \ {job}
    /\ viewer' =
         IF job.networkVersion = viewer[job.client].downloadingVersion
             THEN [viewer EXCEPT ![job.client] =
                     [networkVersion |-> job.networkVersion,
                      network |-> IF IsValid(job.file) THEN job.file ELSE 0,
                      downloadingVersion |-> @.downloadingVersion,
                      failedLoad |-> IF IsValid(job.file) THEN 0 ELSE @.network]]
             ELSE viewer
    /\ UNCHANGED <<clients, numConnections, nvClient, networkVersion, networkFile, network,
                   simulator, sim, jobs, failedLoad, toServer, toClient, numLoads, numRequests,
                   simVars, octVars, libVars>>

SimulationThread == TickPauseCheck \/ TickSwapCommands \/ TickExecute \/ TickStep

(* The load protocol: connections, loadNetwork calls, the two kinds of     *)
(* ReadNetworkJob, and the simulation thread of the simulator in use.      *)
LoadNext ==
    \/ TickPauseCheck
    \/ TickSwapCommands
    \/ TickStep
    \/ ClientConnected
    \/ \E c \in AllClients : ClientDisconnected(c)
    \/ \E c \in AllClients : LoadNetworkRequestCallback(c)
    \/ \E job \in jobs : ReadNetworkJobCompleteCallback(job)
    \/ \E c \in AllClients, ok \in BOOLEAN : LoadNetwork(c, ok)
    \/ \E c \in AllClients : LoadNetworkNotificationCallback(c)
    \/ \E job \in viewerJobs : LoadNetworkCompleteNotificationCallback(job)

(* Selection and drag requests against a loaded network.                   *)
DragNext ==
    \/ SimulationThread
    \/ ClientConnected
    \/ \E c \in AllClients : ClientDisconnected(c)
    \/ \E c \in AllClients, version \in Versions, nodeIndex \in Particles, mode \in 0 .. 2 :
            SelectNodeRequestCallback(c, version, nodeIndex, mode)
    \/ \E c \in AllClients, version \in Versions, dragId \in DragIds, nodeIndex \in Particles :
            DragStartRequestCallback(c, version, dragId, nodeIndex)
    \/ \E c \in AllClients, version \in Versions, dragId \in DragIds :
            DragRequestCallback(c, version, dragId)
    \/ \E c \in AllClients, version \in Versions, dragId \in DragIds :
            DragStopRequestCallback(c, version, dragId)

(* The first client has connected and loaded a network, and both           *)
(* ReadNetworkJobs have completed.                                         *)
LoadedInit ==
    /\ clients = {1}
    /\ numConnections = 1
    /\ nvClient = [c \in AllClients |-> NewClient]
    /\ networkVersion = NextVersion(0)
    /\ networkFile = 1
    /\ network = 1
    /\ simulator = 1
    /\ sim = NewSimulator
    /\ jobs = {}
    /\ failedLoad = 0
    /\ viewer = [c \in AllClients |->
                    IF c = 1 THEN [networkVersion |-> NextVersion(0), network |-> 1,
                                   downloadingVersion |-> NextVersion(0), failedLoad |-> 0]
                    ELSE NewViewer]
    /\ viewerJobs = {}
    /\ toServer = [c \in AllClients |-> <<>>]
    /\ toClient = [c \in AllClients |-> <<>>]
    /\ numLoads = 1
    /\ numRequests = 0

SimFixed == SimInit /\ numWorkerThreads = 0

(* The octree of a particle system that has no particles yet, with the     *)
(* smallest capacity                                                       *)
OctreeFixed == OctreeInit /\ maxParticlesPerNode = 1

(* A particle system with the simulator's settings                         *)
ParticleSystemFixed ==
    /\ ParticleSystemInit
    /\ particleSystem.gravity = 0
    /\ particleSystem.attenuation = 1
    /\ particleSystem.numRelaxationIterations = 1

(* A network without links                                                 *)
NetworkFixed == NetworkInit /\ links = <<>>

(* The update timer with the shortest interval                              *)
UpdateTimerFixed == UpdateTimerInit /\ updateInterval = 2

(***************************************************************************)
(* A session: the clients' calls put request messages on the connection,   *)
(* the server's handlers take them off in order and send notifications,    *)
(* the clients' handlers take those off in order.  The session starts      *)
(* with the first client holding the first network; the graphs have no     *)
(* links and parse, and loadNetwork is called by clients that hold a       *)
(* network.                                                                *)
(***************************************************************************)
NoSelectionSet == <<>>

(* NetworkViewerClient::NetworkViewerClient and DragTool::DragTool         *)
NewClientState ==
    [selection |-> {}, selectionSet |-> NoSelectionSet, activeDrags |-> {},
     lastDragId |-> 0, dragId |-> 0]

SessionFixed ==
    /\ forwards = {}
    /\ labeledNodes = {}
    /\ clientState = [c \in AllClients |-> NewClientState]
    /\ lastRequest = "none"

sessOther == <<simVars, octVars, psVars, netVars, timerVars, toolVars>>

(* What no request handler other than loadNetworkRequestCallback changes   *)
requestFrame == <<clients, numConnections, networkVersion, networkFile, network, simulator,
                  jobs, failedLoad, viewer, viewerJobs, numLoads, numRequests, forwards,
                  clientState, sessOther>>

(* What no call of a client changes                                        *)
callFrame == <<clients, numConnections, nvClient, networkVersion, networkFile, network,
               simulator, sim, jobs, failedLoad, toClient, forwards, labeledNodes, lastRequest,
               sessOther>>

(* What no notification handler of a client changes                        *)
notificationFrame == <<clients, numConnections, nvClient, networkVersion, networkFile, network,
                       simulator, sim, jobs, failedLoad, toServer, numLoads, numRequests,
                       forwards, labeledNodes, lastRequest, sessOther>>

(* The head of the client's connection to the server is a message of the   *)
(* given kind                                                              *)
Requested(c, op) == c \in clients /\ toServer[c] # <<>> /\ Head(toServer[c]).op = op

Notified(c, op) == c \in clients /\ toClient[c] # <<>> /\ Head(toClient[c]).op = op

(* The test of the version only                                            *)
AppliesToVersion(version) == version = networkVersion

(* if(version==networkVersion&&simulator!=0)                               *)
Applies(version) == version = networkVersion /\ simulator # 0

(* broadcastMessage(sourceClientId, ...): to every client but the source   *)
Broadcast(sourceClientId, msg) ==
    [d \in AllClients |->
        IF d \in clients \ {sourceClientId} THEN Append(toClient[d], msg) ELSE toClient[d]]

(* NetworkViewerServer::clientConnected                                    *)
SessionClientConnected ==
    /\ numConnections < MaxClients
    /\ LET c == numConnections + 1
       IN /\ sim' = IF simulator # 0 /\ clients = {} THEN ResumeSimulator(sim) ELSE sim
          /\ clients' = clients \cup {c}
          /\ numConnections' = c
          /\ nvClient' = [nvClient EXCEPT ![c] = NewClient]
          /\ viewer' = [viewer EXCEPT ![c] = NewViewer]
          /\ clientState' = [clientState EXCEPT ![c] = NewClientState]
          /\ toClient' = [toClient EXCEPT ![c] =
                            IF networkFile # 0
                                THEN <<[op |-> "loadNetwork", version |-> networkVersion,
                                        file |-> networkFile]>>
                                ELSE <<>>]
          /\ forwards' = IF networkFile # 0
                            THEN forwards \cup {[clientId |-> c, networkVersion |-> networkVersion]}
                            ELSE forwards
    /\ UNCHANGED <<networkVersion, networkFile, network, simulator, jobs, failedLoad, viewerJobs,
                   toServer, numLoads, numRequests, labeledNodes, lastRequest, sessOther>>

(* NetworkViewerServer::loadNetworkRequestCallback                         *)
SessionLoadNetworkRequestCallback(c) ==
    /\ Requested(c, "loadNetwork")
    /\ LET msg == Head(toServer[c])
           newVersion == NextVersion(networkVersion)
       IN /\ toServer' = [toServer EXCEPT ![c] = Tail(@)]
          /\ IF msg.version = networkVersion
                THEN /\ nvClient' = [d \in AllClients |->
                                        IF d \in clients THEN [nvClient[d] EXCEPT !.activeDrags = {}]
                                        ELSE nvClient[d]]
                     /\ networkVersion' = newVersion
                     /\ simulator' = 0
                     /\ sim' = NewSimulator
                     /\ network' = 0
                     /\ networkFile' = 0
                     /\ jobs' = jobs \cup {[file |-> msg.file, prevNetwork |-> network]}
                     /\ failedLoad' = 0
                     /\ toClient' = Broadcast(c, [op |-> "loadNetwork", version |-> newVersion,
                                                  file |-> msg.file])
                     /\ forwards' = forwards \cup
                            {[clientId |-> d, networkVersion |-> newVersion] : d \in clients \ {c}}
                ELSE UNCHANGED <<nvClient, networkVersion, simulator, sim, network, networkFile,
                                 jobs, failedLoad, toClient, forwards>>
    /\ UNCHANGED <<clients, numConnections, viewer, viewerJobs, numLoads, numRequests,
                   labeledNodes, clientState, lastRequest, sessOther>>

(* NetworkViewerServer::forwardNetworkCompleteCallback; the selection set  *)
(* and label set notifications are one message here                        *)
ForwardNetworkCompleteCallback(cbData) ==
    /\ cbData \in forwards
    /\ forwards' = forwards \ {cbData}
    /\ toClient' = IF network # 0
                      THEN [toClient EXCEPT ![cbData.clientId] =
                               Append(@, [op |-> "selectionSet", version |-> networkVersion,
                                          nodes |-> sim.selection, labels |-> labeledNodes])]
                      ELSE toClient
    /\ UNCHANGED <<clients, numConnections, nvClient, networkVersion, networkFile, network,
                   simulator, sim, jobs, failedLoad, viewer, viewerJobs, toServer, numLoads,
                   numRequests, labeledNodes, clientState, lastRequest, sessOther>>

(* NetworkViewerServer::selectNodeRequestCallback                          *)
SelectNodeRequest(c) ==
    /\ Requested(c, "selectNode")
    /\ LET msg == Head(toServer[c])
       IN /\ toServer' = [toServer EXCEPT ![c] = Tail(@)]
          /\ IF Applies(msg.version)
                THEN /\ sim' = Queue(sim, Command("selectNode", 0, 0, msg.node, msg.mode))
                     /\ toClient' = Broadcast(0, [op |-> "selectNode", version |-> msg.version,
                                                  node |-> msg.node, mode |-> msg.mode])
                     /\ lastRequest' = "processed"
                ELSE /\ lastRequest' = "ignored"
                     /\ UNCHANGED <<sim, toClient>>
    /\ UNCHANGED <<nvClient, labeledNodes, requestFrame>>

(* NetworkViewerServer::changeSelectionRequestCallback                     *)
ChangeSelectionRequest(c) ==
    /\ Requested(c, "changeSelection")
    /\ LET msg == Head(toServer[c])
       IN /\ toServer' = [toServer EXCEPT ![c] = Tail(@)]
          /\ IF Applies(msg.version)
                THEN /\ sim' = Queue(sim, Command("changeSelection", 0, 0, 0, msg.command))
                     /\ toClient' = Broadcast(0, [op |-> "changeSelection",
                                                  version |-> msg.version,
                                                  command |-> msg.command])
                     /\ lastRequest' = "processed"
                ELSE /\ lastRequest' = "ignored"
                     /\ UNCHANGED <<sim, toClient>>
    /\ UNCHANGED <<nvClient, labeledNodes, requestFrame>>

(* NetworkViewerServer::displayLabelRequestCallback                        *)
DisplayLabelRequest(c) ==
    /\ Requested(c, "displayLabel")
    /\ LET msg == Head(toServer[c])
       IN /\ toServer' = [toServer EXCEPT ![c] = Tail(@)]
          /\ IF Applies(msg.version)
                THEN /\ labeledNodes' = CASE msg.command = 0 -> {}
                                          [] msg.command = 1 -> labeledNodes \cup {msg.node}
                                          [] msg.command = 2 -> labeledNodes \ {msg.node}
                                          [] OTHER -> labeledNodes
                     /\ toClient' = Broadcast(c, [op |-> "displayLabel", version |-> msg.version,
                                                  node |-> msg.node, command |-> msg.command])
                     /\ lastRequest' = "processed"
                ELSE /\ lastRequest' = "ignored"
                     /\ UNCHANGED <<labeledNodes, toClient>>
    /\ UNCHANGED <<nvClient, sim, requestFrame>>

(* NetworkViewerServer::dragStartRequestCallback                           *)
DragStartRequest(c) ==
    /\ Requested(c, "dragStart")
    /\ LET msg == Head(toServer[c])
       IN /\ toServer' = [toServer EXCEPT ![c] = Tail(@)]
          /\ IF Applies(msg.version)
                THEN /\ nvClient' = [nvClient EXCEPT ![c].activeDrags = @ \cup {msg.dragId}]
                     /\ sim' = Queue(sim, Command("dragStart", c, msg.dragId, msg.node, 0))
                     /\ lastRequest' = "processed"
                ELSE /\ lastRequest' = "ignored"
                     /\ UNCHANGED <<nvClient, sim>>
    /\ UNCHANGED <<toClient, labeledNodes, requestFrame>>

(* NetworkViewerServer::dragRequestCallback.  getEntry throws when the     *)
(* map has no entry for the drag ID, before anything else is done.         *)
DragRequest(c) ==
    /\ Requested(c, "drag")
    /\ LET msg == Head(toServer[c])
       IN /\ toServer' = [toServer EXCEPT ![c] = Tail(@)]
          /\ IF Applies(msg.version)
                THEN IF msg.dragId \in nvClient[c].activeDrags
                        THEN /\ sim' = Queue(sim, Command("drag", c, msg.dragId, 0, 0))
                             /\ lastRequest' = "processed"
                        ELSE /\ lastRequest' = "threw"
                             /\ UNCHANGED sim
                ELSE /\ lastRequest' = "ignored"
                     /\ UNCHANGED sim
    /\ UNCHANGED <<nvClient, toClient, labeledNodes, requestFrame>>

(* NetworkViewerServer::dragStopRequestCallback                            *)
DragStopRequest(c) ==
    /\ Requested(c, "dragStop")
    /\ LET msg == Head(toServer[c])
       IN /\ toServer' = [toServer EXCEPT ![c] = Tail(@)]
          /\ IF Applies(msg.version)
                THEN /\ nvClient' = [nvClient EXCEPT ![c].activeDrags = @ \ {msg.dragId}]
                     /\ sim' = Queue(sim, Command("dragStop", c, msg.dragId, 0, 0))
                     /\ lastRequest' = "processed"
                ELSE /\ lastRequest' = "ignored"
                     /\ UNCHANGED <<nvClient, sim>>
    /\ UNCHANGED <<toClient, labeledNodes, requestFrame>>

(* NetworkViewerClient::loadNetwork                                        *)
SessionLoadNetwork(c) ==
    /\ c \in clients
    /\ viewer[c].network # 0
    /\ numLoads < MaxLoads
    /\ LET file == numLoads + 1
           version == NextVersion(viewer[c].networkVersion)
       IN /\ toServer' = [toServer EXCEPT ![c] =
                            Append(@, [op |-> "loadNetwork",
                                       version |-> viewer[c].networkVersion, file |-> file])]
          /\ viewer' = [viewer EXCEPT ![c].networkVersion = version,
                                      ![c].downloadingVersion = version]
          /\ viewerJobs' = viewerJobs \cup {[client |-> c, networkVersion |-> version, file |-> file]}
    /\ clientState' = [clientState EXCEPT ![c].selectionSet = NoSelectionSet]
    /\ numLoads' = numLoads + 1
    /\ UNCHANGED <<numRequests, callFrame>>

(* NetworkViewerClient::selectNode, called by a tool that picked a node    *)
SelectNodeCall(c, pickedNodeIndex, mode) ==
    /\ c \in clients
    /\ viewer[c].network # 0
    /\ numRequests < MaxRequests
    /\ toServer' = [toServer EXCEPT ![c] =
                        Append(@, [op |-> "selectNode", version |-> viewer[c].networkVersion,
                                   node |-> pickedNodeIndex, mode |-> mode])]
    /\ numRequests' = numRequests + 1
    /\ UNCHANGED <<viewer, viewerJobs, numLoads, clientState, callFrame>>

(* NetworkViewerClient::changeSelection                                    *)
ChangeSelectionCall(c, command) ==
    /\ c \in clients
    /\ viewer[c].network # 0
    /\ numRequests < MaxRequests
    /\ toServer' = [toServer EXCEPT ![c] =
                        Append(@, [op |-> "changeSelection",
                                   version |-> viewer[c].networkVersion, command |-> command])]
    /\ numRequests' = numRequests + 1
    /\ UNCHANGED <<viewer, viewerJobs, numLoads, clientState, callFrame>>

(* DragTool::buttonCallback, button pressed over a node:                   *)
(* NetworkViewerClient::startDrag                                          *)
DragToolPressed(c, pickedNodeIndex) ==
    /\ c \in clients
    /\ viewer[c].network # 0
    /\ clientState[c].dragId = 0
    /\ clientState[c].lastDragId < MaxDragId
    /\ numRequests < MaxRequests
    /\ LET newDragId == clientState[c].lastDragId + 1
       IN /\ clientState' = [clientState EXCEPT ![c].lastDragId = newDragId,
                                                ![c].activeDrags = @ \cup {newDragId},
                                                ![c].dragId = newDragId]
          /\ toServer' = [toServer EXCEPT ![c] =
                            Append(@, [op |-> "dragStart", version |-> viewer[c].networkVersion,
                                       dragId |-> newDragId, node |-> pickedNodeIndex])]
    /\ numRequests' = numRequests + 1
    /\ UNCHANGED <<viewer, viewerJobs, numLoads, callFrame>>

(* DragTool::frame with an active drag: NetworkViewerClient::drag          *)
DragToolFrame(c) ==
    /\ c \in clients
    /\ clientState[c].dragId # 0
    /\ numRequests < MaxRequests
    /\ toServer' = [toServer EXCEPT ![c] =
                        Append(@, [op |-> "drag", version |-> viewer[c].networkVersion,
                                   dragId |-> clientState[c].dragId])]
    /\ numRequests' = numRequests + 1
    /\ UNCHANGED <<viewer, viewerJobs, numLoads, clientState, callFrame>>

(* DragTool::buttonCallback, button released: NetworkViewerClient::stopDrag *)
DragToolReleased(c) ==
    /\ c \in clients
    /\ clientState[c].dragId # 0
    /\ numRequests < MaxRequests
    /\ LET dragId == clientState[c].dragId
       IN /\ toServer' = [toServer EXCEPT ![c] =
                            IF dragId \in clientState[c].activeDrags
                                THEN Append(@, [op |-> "dragStop",
                                                version |-> viewer[c].networkVersion,
                                                dragId |-> dragId])
                                ELSE @]
          /\ clientState' = [clientState EXCEPT ![c].activeDrags = @ \ {dragId},
                                                ![c].dragId = 0]
    /\ numRequests' = numRequests + 1
    /\ UNCHANGED <<viewer, viewerJobs, numLoads, callFrame>>

(* NetworkViewerClient::loadNetworkNotificationCallback                    *)
SessionLoadNetworkNotificationCallback(c) ==
    /\ Notified(c, "loadNetwork")
    /\ LET msg == Head(toClient[c])
       IN /\ toClient' = [toClient EXCEPT ![c] = Tail(@)]
          /\ viewer' = [viewer EXCEPT ![c].downloadingVersion = msg.version]
          /\ clientState' = [clientState EXCEPT ![c].selectionSet = NoSelectionSet]
          /\ viewerJobs' = viewerJobs \cup
                {[client |-> c, networkVersion |-> msg.version, file |-> msg.file]}
    /\ UNCHANGED notificationFrame

(* NetworkViewerClient::loadNetworkCompleteNotificationCallback: the new   *)
(* network has no selected node until the saved selection set is applied   *)
SessionLoadNetworkCompleteNotificationCallback(job) ==
    /\ job \in viewerJobs
    /\ viewerJobs' = viewerJobs \ {job}
    /\ IF job.networkVersion = viewer[job.client].downloadingVersion
          THEN /\ viewer' = [viewer EXCEPT ![job.client].networkVersion = job.networkVersion,
                                           ![job.client].network = job.file]
               /\ clientState' = [clientState EXCEPT
                     ![job.client].selection =
                         IF clientState[job.client].selectionSet # NoSelectionSet
                             THEN clientState[job.client].selectionSet[1] ELSE {},
                     ![job.client].selectionSet = NoSelectionSet]
          ELSE UNCHANGED <<viewer, clientState>>
    /\ UNCHANGED <<toClient, notificationFrame>>

(* NetworkViewerClient::selectionSetNotificationCallback                   *)
SelectionSetNotificationCallback(c) ==
    /\ Notified(c, "selectionSet")
    /\ LET msg == Head(toClient[c])
       IN /\ toClient' = [toClient EXCEPT ![c] = Tail(@)]
          /\ clientState' =
                IF msg.version = viewer[c].networkVersion
                    THEN [clientState EXCEPT ![c].selection = msg.nodes]
                ELSE IF msg.version = viewer[c].downloadingVersion
                    THEN [clientState EXCEPT ![c].selectionSet = <<msg.nodes>>]
                ELSE clientState
    /\ UNCHANGED <<viewer, viewerJobs, notificationFrame>>

(* NetworkViewerClient::selectNodeNotificationCallback                     *)
SelectNodeNotificationCallback(c) ==
    /\ Notified(c, "selectNode")
    /\ LET msg == Head(toClient[c])
       IN /\ toClient' = [toClient EXCEPT ![c] = Tail(@)]
          /\ clientState' =
                IF msg.version = viewer[c].networkVersion
                    THEN [clientState EXCEPT ![c].selection =
                            CASE msg.mode = 0 -> @ \cup {msg.node}
                              [] msg.mode = 1 -> @ \ {msg.node}
                              [] msg.mode = 2 -> IF msg.node \in @ THEN @ \ {msg.node}
                                                 ELSE @ \cup {msg.node}
                              [] OTHER -> @]
                    ELSE clientState
    /\ UNCHANGED <<viewer, viewerJobs, notificationFrame>>

(* NetworkViewerClient::changeSelectionNotificationCallback                *)
ChangeSelectionNotificationCallback(c) ==
    /\ Notified(c, "changeSelection")
    /\ LET msg == Head(toClient[c])
       IN /\ toClient' = [toClient EXCEPT ![c] = Tail(@)]
          /\ clientState' =
                IF msg.version = viewer[c].networkVersion /\ msg.command = 0
                    THEN [clientState EXCEPT ![c].selection = {}]
                    ELSE clientState
    /\ UNCHANGED <<viewer, viewerJobs, notificationFrame>>

SelectModes == 0 .. 2
ChangeCommands == 0 .. 1
LabelCommands == 0 .. 2

(* What the clients of the selection session call: one node is picked, to  *)
(* select it or to toggle it, and the selection is cleared from the menu   *)
PickedNodes == {0}
PickModes == {0, 2}
MenuCommands == {0}

(* Selection requests of the clients among connections and loads           *)
SelectionSessionNext ==
    \/ SimulationThread
    \/ SessionClientConnected
    \/ \E job \in jobs : ReadNetworkJobCompleteCallback(job)
    \/ \E cbData \in forwards : ForwardNetworkCompleteCallback(cbData)
    \/ \E c \in AllClients : SessionLoadNetworkRequestCallback(c)
    \/ \E c \in AllClients : SelectNodeRequest(c)
    \/ \E c \in AllClients : ChangeSelectionRequest(c)
    \/ \E c \in AllClients : SessionLoadNetwork(c)
    \/ \E c \in AllClients, pickedNodeIndex \in PickedNodes, mode \in PickModes :
            SelectNodeCall(c, pickedNodeIndex, mode)
    \/ \E c \in AllClients, command \in MenuCommands : ChangeSelectionCall(c, command)
    \/ \E c \in AllClients : SessionLoadNetworkNotificationCallback(c)
    \/ \E job \in viewerJobs : SessionLoadNetworkCompleteNotificationCallback(job)
    \/ \E c \in AllClients : SelectionSetNotificationCallback(c)
    \/ \E c \in AllClients : SelectNodeNotificationCallback(c)
    \/ \E c \in AllClients : ChangeSelectionNotificationCallback(c)

(* The drag tools of the clients among connections and loads               *)
DragSessionNext ==
    \/ SimulationThread
    \/ SessionClientConnected
    \/ \E job \in jobs : ReadNetworkJobCompleteCallback(job)
    \/ \E cbData \in forwards : ForwardNetworkCompleteCallback(cbData)
    \/ \E c \in AllClients : SessionLoadNetworkRequestCallback(c)
    \/ \E c \in AllClients : DragStartRequest(c)
    \/ \E c \in AllClients : DragRequest(c)
    \/ \E c \in AllClients : DragStopRequest(c)
    \/ \E c \in AllClients : SessionLoadNetwork(c)
    \/ \E c \in AllClients, pickedNodeIndex \in Particles : DragToolPressed(c, pickedNodeIndex)
    \/ \E c \in AllClients : DragToolFrame(c)
    \/ \E c \in AllClients : DragToolReleased(c)
    \/ \E c \in AllClients : SessionLoadNetworkNotificationCallback(c)
    \/ \E job \in viewerJobs : SessionLoadNetworkCompleteNotificationCallback(job)
    \/ \E c \in AllClients : SelectionSetNotificationCallback(c)

(* The request messages a connection can deliver to the server             *)
Requests ==
    [op : {"selectNode"}, version : Versions, node : Particles, mode : SelectModes]
    \cup [op : {"changeSelection"}, version : Versions, command : ChangeCommands]
    \cup [op : {"displayLabel"}, version : Versions, node : Particles, command : LabelCommands]
    \cup [op : {"dragStart"}, version : Versions, dragId : DragIds, node : Particles]
    \cup [op : {"drag", "dragStop"}, version : Versions, dragId : DragIds]

(* A request message of a client has arrived at the server                 *)
RequestArrives(c, msg) ==
    /\ c \in clients
    /\ toServer[c] = <<>>
    /\ numRequests < MaxRequests
    /\ toServer' = [toServer EXCEPT ![c] = <<msg>>]
    /\ numRequests' = numRequests + 1
    /\ UNCHANGED <<viewer, viewerJobs, numLoads, clientState, callFrame>>

(* A load request of a client has arrived at the server                    *)
LoadRequestArrives(c, version) ==
    /\ c \in clients
    /\ toServer[c] = <<>>
    /\ numLoads < MaxLoads
    /\ toServer' = [toServer EXCEPT ![c] =
                        <<[op |-> "loadNetwork", version |-> version, file |-> numLoads + 1]>>]
    /\ numLoads' = numLoads + 1
    /\ UNCHANGED <<viewer, viewerJobs, numRequests, clientState, callFrame>>

(* The server's request handlers against any requests, stale or not        *)
RequestNext ==
    \/ SimulationThread
    \/ SessionClientConnected
    \/ \E job \in jobs : ReadNetworkJobCompleteCallback(job)
    \/ \E c \in AllClients, msg \in Requests : RequestArrives(c, msg)
    \/ \E c \in AllClients, version \in Versions : LoadRequestArrives(c, version)
    \/ \E c \in AllClients : SessionLoadNetworkRequestCallback(c)
    \/ \E c \in AllClients : SelectNodeRequest(c)
    \/ \E c \in AllClients : ChangeSelectionRequest(c)
    \/ \E c \in AllClients : DisplayLabelRequest(c)
    \/ \E c \in AllClients : DragStartRequest(c)
    \/ \E c \in AllClients : DragRequest(c)
    \/ \E c \in AllClients : DragStopRequest(c)

(* ---------------------------------------------------------------------- *)
(* NetworkViewer with several SelectAndDragTool objects                     *)
(* ---------------------------------------------------------------------- *)

NumTools == 2                    \* number of SelectAndDragTool objects
Tools == 1 .. NumTools

(* Network::createParticles: one particle per node, in node order          *)
RECURSIVE CreatedParticles(_, _)
CreatedParticles(ps, numNodes) ==
    IF numNodes = 0
    THEN ps
    ELSE AddedParticle(CreatedParticles(ps, numNodes - 1), InitialInvMass,
                       (numNodes - 1) * PositionUnit, 0)

(* SelectAndDragTool::SelectAndDragTool, with the state of its button      *)
NewTool == [pressed |-> FALSE, draggingSelection |-> FALSE, draggedParticles |-> {}]

(* NetworkViewer::NetworkViewer: the lock is free, no tool drags           *)
ToolFixed ==
    /\ selectionLocked = FALSE
    /\ tools = [t \in Tools |-> NewTool]

(* SelectAndDragTool::beginDrag. lockSelection returns whether the lock    *)
(* was free and leaves it taken in either case.                            *)
BeginDrag(t, pickedNodeIndex) ==
    LET locked == ~selectionLocked
        picksNew == pickedNodeIndex \notin selection
        dragged == IF locked
                   THEN (IF picksNew THEN {pickedNodeIndex} ELSE selection)
                   ELSE (IF picksNew THEN {pickedNodeIndex} ELSE {})
    IN /\ selectionLocked' = TRUE
       /\ tools' = [tools EXCEPT ![t] =
                        [pressed |-> TRUE,
                         draggingSelection |-> locked,
                         draggedParticles |->
                             {[particleIndex |-> p,
                               particleInvMass |-> particleSystem.invMass[p]] : p \in dragged}]]
       /\ particleSystem' = [particleSystem EXCEPT !.invMass =
                                [p \in DOMAIN particleSystem.invMass |->
                                    IF p \in dragged THEN 0 ELSE particleSystem.invMass[p]]]
       /\ IF locked /\ picksNew
          THEN /\ selection' = {pickedNodeIndex}
               /\ nodeColors' = NodeColorsFromSelectionDistance({pickedNodeIndex})
               /\ lastCall' = "setSelection"
               /\ selectionBefore' = selection
               /\ grownFrom' = NotGrown
          ELSE UNCHANGED <<selection, nodeColors, lastCall, selectionBefore, grownFrom>>

(* SelectAndDragTool::endDrag                                              *)
EndDrag(t) ==
    LET restored == {dp.particleIndex : dp \in tools[t].draggedParticles}
        saved(p) == (CHOOSE dp \in tools[t].draggedParticles : dp.particleIndex = p).particleInvMass
    IN /\ particleSystem' = [particleSystem EXCEPT !.invMass =
                                [p \in DOMAIN particleSystem.invMass |->
                                    IF p \in restored THEN saved(p) ELSE particleSystem.invMass[p]]]
       /\ selectionLocked' = IF tools[t].draggingSelection THEN FALSE ELSE selectionLocked
       /\ tools' = [tools EXCEPT ![t] = NewTool]

(* SelectAndDragTool::buttonCallback, button pressed over a node           *)
ButtonPressedOnNode(t, pickedNodeIndex) ==
    /\ ~tools[t].pressed
    /\ BeginDrag(t, pickedNodeIndex)
    /\ UNCHANGED <<links, linkedNodes, relaxedFrom, numTicks,
                   simVars, srvVars, octVars, timerVars, sessVars>>

(* SelectAndDragTool::buttonCallback, button pressed over no node: the     *)
(* selection is cleared if the lock was free, and the lock is released     *)
(* only in that case.                                                      *)
ButtonPressedOnNothing(t) ==
    /\ ~tools[t].pressed
    /\ tools' = [tools EXCEPT ![t].pressed = TRUE]
    /\ IF ~selectionLocked
       THEN /\ selectionLocked' = FALSE
            /\ selection' = {}
            /\ nodeColors' = NodeColorsFromNode
            /\ lastCall' = "clearSelection"
            /\ selectionBefore' = selection
            /\ grownFrom' = NotGrown
       ELSE /\ selectionLocked' = TRUE
            /\ UNCHANGED <<selection, nodeColors, lastCall, selectionBefore, grownFrom>>
    /\ UNCHANGED <<links, linkedNodes, psVars, simVars, srvVars, octVars, timerVars, sessVars>>

(* SelectAndDragTool::buttonCallback, button released                      *)
ButtonReleased(t) ==
    /\ tools[t].pressed
    /\ EndDrag(t)
    /\ UNCHANGED <<relaxedFrom, numTicks, netVars, simVars, srvVars, octVars, timerVars, sessVars>>

ToolNext ==
    \E t \in Tools :
        \/ \E pickedNodeIndex \in Nodes : ButtonPressedOnNode(t, pickedNodeIndex)
        \/ ButtonPressedOnNothing(t)
        \/ ButtonReleased(t)

LibFixed == ParticleSystemFixed /\ NetworkFixed /\ UpdateTimerFixed /\ ToolFixed /\ SessionFixed

LoadInit == ServerInit /\ SimFixed /\ OctreeFixed /\ LibFixed

LoadSpec == LoadInit /\ [][LoadNext]_vars

DragInit == LoadedInit /\ SimFixed /\ OctreeFixed /\ LibFixed

DragSpec == DragInit /\ [][DragNext]_vars

(***************************************************************************)
(* The specifications.                                                     *)
(***************************************************************************)
SimThread ==
    \/ SimLoop
    \/ SimPauseCheck
    \/ SimLockParameters
    \/ SimSwapCommands
    \/ SimExecute
    \/ SimExecuteDone
    \/ SimApplyDrags
    \/ SimTimeCheck
    \/ SimCallback

TeamStep(t) ==
    \/ WorkerLoop(t)
    \/ BarrierSynchronize(t)
    \/ MoveParticles(t)
    \/ ApplyForces(t)
    \/ SwapPositions(t)
    \/ EnforceBoundary(t)
    \/ AccumulateDeltas(t)
    \/ ApplyDeltas(t)
    \/ UpdateOctree(t)

ThreadStep(t) == (t = 0 /\ SimThread) \/ TeamStep(t)

FrontEnd == QueueCommand \/ PostStart \/ PostFinish \/ Pause \/ Resume

Destructor == DtorStop \/ DtorSignal \/ DtorJoinSim \/ DtorJoinWorkers \/ DtorDelete

SimNext ==
    \/ SimThread
    \/ \E t \in 0 .. MaxWorkers : TeamStep(t)
    \/ FrontEnd
    \/ Destructor

TeamInit == SimInit /\ ServerInit /\ OctreeFixed /\ LibFixed

SimSpec == TeamInit /\ [][SimNext]_vars

TreeInit == OctreeInit /\ SimFixed /\ ServerInit /\ LibFixed

OctreeSpec == TreeInit /\ [][OctreeNext]_vars

AdvanceInit ==
    ParticleSystemInit /\ SimFixed /\ ServerInit /\ OctreeFixed /\ NetworkFixed /\ UpdateTimerFixed /\ ToolFixed /\ SessionFixed

AdvanceSpec == AdvanceInit /\ [][ParticleSystemNext]_vars

SelectionInit ==
    NetworkInit /\ SimFixed /\ ServerInit /\ OctreeFixed /\ ParticleSystemFixed /\ UpdateTimerFixed /\ ToolFixed /\ SessionFixed

SelectionSpec == SelectionInit /\ [][NetworkNext]_vars

UpdateTimerStart ==
    UpdateTimerInit /\ SimFixed /\ ServerInit /\ OctreeFixed /\ ParticleSystemFixed /\ NetworkFixed /\ ToolFixed /\ SessionFixed

UpdateTimerSpec == UpdateTimerStart /\ [][UpdateTimerNext]_vars

SelectionSessionSpec == DragInit /\ [][SelectionSessionNext]_vars

DragSessionSpec == DragInit /\ [][DragSessionNext]_vars

RequestSpec == DragInit /\ [][RequestNext]_vars

(* The standalone viewer: the particles of the network's nodes exist and  *)
(* the tools are created.                                                  *)
ViewerInit ==
    /\ SimFixed /\ ServerInit /\ OctreeFixed /\ NetworkFixed /\ UpdateTimerFixed /\ ToolFixed /\ SessionFixed
    /\ particleSystem = CreatedParticles(
                            [gravity |-> 0, attenuation |-> 1, distConstraintScale |-> 1,
                             numRelaxationIterations |-> 1, prevDt |-> 1, invMass |-> <<>>,
                             numDistConstraints |-> <<>>, pos |-> <<>>, prevPos |-> <<>>,
                             distConstraints |-> <<>>], NumNodes)
    /\ relaxedFrom = <<>>
    /\ numTicks = 0

ToolSpec == ViewerInit /\ [][ToolNext]_vars

(* Every running thread is scheduled, and the destroying thread goes on.   *)
FairSimSpec ==
    /\ TeamInit
    /\ [][SimNext]_vars
    /\ \A t \in 0 .. MaxWorkers : WF_vars(ThreadStep(t))
    /\ WF_vars(Destructor)

(* Every running thread is scheduled; the front end need not call          *)
(* anything and the simulator need not be destroyed.                       *)
FairThreadsSpec ==
    /\ TeamInit
    /\ [][SimNext]_vars
    /\ \A t \in 0 .. MaxWorkers : WF_vars(ThreadStep(t))

(***************************************************************************)
(* Properties of the thread team.                                          *)
(***************************************************************************)

(* C1: stopping the simulator always completes: no thread stays blocked in *)
(* barrier.synchronize().  A thread that waits at the barrier after        *)
(* another thread of the team has left its loop waits for ever, because    *)
(* the barrier needs all 1+numWorkerThreads threads to arrive; so the      *)
(* claim requires that no such state is reachable.                         *)
C1_NoThreadLeftAtBarrier ==
    ~(\E t \in Threads : \E u \in Threads : pc[t] = "done" /\ u \in arrived)

(* C3, as claimed: once keepSimulationThreadRunning has been cleared, no   *)
(* command's execute() runs any more.                                      *)
C3_NoExecuteAfterStop ==
    [][~keepSimulationThreadRunning => executed' = executed]_vars

(* C3, as the code has it: once the simulation thread has left its loop no *)
(* command's execute() runs; the destructor only frees the commands that   *)
(* are still queued, so that at its end every queued command has either    *)
(* been executed by a tick or been freed, never both.                      *)
C3_NoExecuteAfterExit ==
    [][/\ pc[0] = "done" => executed' = executed
       /\ dtor' = "end" =>
            /\ simulationCommands' = <<>>
            /\ scs' = <<>>
            /\ executed' \o deleted' = [i \in 1 .. numQueued' |-> i]]_vars

C3_Witness ==
    /\ dtor = "end"
    /\ deleted # <<>>
    /\ executed # <<>>

C8_SnapshotAfterRelaxation ==
    pc[0] = "callback" =>
        \A t \in Threads :
            /\ roundsDone[t] = NumRelaxationIterations
            /\ t # 0 => ~InStep(t)

C8_Witness ==
    /\ pc[0] = "callback"
    /\ numWorkerThreads > 0
    /\ numPosted > 1

(* C9: within a tick all threads use one and the same parameter set for    *)
(* the whole physics step: the values any two threads inside the step have *)
(* used, and the values their references sp denote now, are one value.     *)
C9_OneParameterSetPerTick ==
    \A t \in Threads : \A u \in Threads :
        (pc[t] \in StepPcs \ {"move"} /\ pc[u] \in StepPcs \ {"move"}) =>
            Cardinality(spSeen[t] \cup {buffer[spRef[t]]}
                        \cup spSeen[u] \cup {buffer[spRef[u]]}) = 1

C9_Witness ==
    /\ numWorkerThreads > 0
    /\ mostRecentIndex # lockedIndex
    /\ numPosted > 1
    /\ \A t \in Threads : pc[t] \in StepPcs \ {"move", "force"}

(***************************************************************************)
(* Properties of the server, its clients and the drag commands.            *)
(***************************************************************************)

(* C2: a network load that fails leaves the previously loaded network and  *)
(* simulation untouched: after a failed ReadNetworkJob has completed on    *)
(* the server, the server still holds the network it held when the load    *)
(* was requested, and a simulator for it; after a failed ReadNetworkJob    *)
(* has completed on a client, the client's network is the one it had       *)
(* before.                                                                 *)
C2_FailedLoadLeavesNetwork ==
    /\ failedLoad # 0 => (network = failedLoad /\ simulator = failedLoad)
    /\ \A c \in clients : viewer[c].failedLoad # 0 => viewer[c].network = viewer[c].failedLoad

(* C4: whenever the server holds a simulator, the simulator is paused      *)
(* exactly while no client is connected.                                   *)
C4_PausedIffNoClient ==
    simulator # 0 => (sim.pauseSimulationThread <=> clients = {})

(* The particles that are part of an active drag of the simulator.         *)
Dragged == {dp.index : dp \in UNION {ad.draggedParticles : ad \in sim.activeDrags}}

Pending == sim.scs \o sim.simulationCommands

C10_OctreeStructure ==
    \A path \in DOMAIN octree :
        LET node == octree[path]
            Child(childIndex) == octree[Append(path, childIndex)]
        IN /\ (node.numParticles > maxParticlesPerNode)
                <=> (\E childIndex \in ChildIndices : Append(path, childIndex) \in DOMAIN octree)
           /\ IF node.numParticles > maxParticlesPerNode
                 THEN /\ \A childIndex \in ChildIndices : Append(path, childIndex) \in DOMAIN octree
                      /\ \A i \in Coords : node.min[i] < node.center[i] /\ node.center[i] < node.max[i]
                      /\ \A childIndex \in ChildIndices : \A i \in Coords :
                            IF Bit(childIndex, i) = 1
                                THEN /\ Child(childIndex).min[i] = node.center[i]
                                     /\ Child(childIndex).max[i] = node.max[i]
                                ELSE /\ Child(childIndex).min[i] = node.min[i]
                                     /\ Child(childIndex).max[i] = node.center[i]
                      /\ node.numParticles =
                            Child(0).numParticles + Child(1).numParticles + Child(2).numParticles
                                + Child(3).numParticles + Child(4).numParticles
                                + Child(5).numParticles + Child(6).numParticles
                                + Child(7).numParticles
                 ELSE /\ Len(node.particleIndices) = node.numParticles
                      /\ \A i \in 1 .. node.numParticles :
                            IsInside(node, particlePosition[node.particleIndices[i]])

(* updateParticles has found a particle outside the octree's domain and    *)
(* added it again; the root is an interior node and has been enlarged more *)
(* than once.                                                              *)
C10_Witness ==
    /\ outOfDomainParticles # <<>>
    /\ octree[<<>>].numParticles > maxParticlesPerNode
    /\ octree[<<>>].max[1] - octree[<<>>].min[1] > UnitLength + UnitLength

(* The places of a particle index in the leaves' particle index arrays     *)
Occurrences(T, particleIndex) ==
    {place \in {<<path, i>> : path \in DOMAIN T, i \in 1 .. MaxOctreeParticles} :
        /\ T[place[1]].numParticles <= maxParticlesPerNode
        /\ place[2] <= T[place[1]].numParticles
        /\ T[place[1]].particleIndices[place[2]] = particleIndex}

(* Every particle of the set stored is in exactly one place, at which the  *)
(* leaf's domain holds its position, and no other particle is in any       *)
StoredOnce(T, stored, pos) ==
    \A particleIndex \in DOMAIN pos :
        IF particleIndex \in stored
            THEN /\ Cardinality(Occurrences(T, particleIndex)) = 1
                 /\ \A place \in Occurrences(T, particleIndex) :
                        IsInside(T[place[1]], pos[particleIndex])
            ELSE Occurrences(T, particleIndex) = {}

(* C11: updateParticles neither loses nor duplicates particles.  After     *)
(* every call that returns, every particle that was stored before is       *)
(* stored in exactly one leaf, once, and that leaf's domain holds the      *)
(* particle's position; and an updateParticles call hands back to          *)
(* addParticle exactly the particles whose new position is outside the     *)
(* domain the root had before the call, each once, after which the root's  *)
(* domain holds them.                                                      *)
C11_NoParticleLostOrDuplicated ==
    [][/\ StoredOnce(octree', octreeParticles', particlePosition')
       /\ (octreeParticles' = octreeParticles /\ DOMAIN octree # {}) =>
            /\ {outOfDomainParticles'[i] : i \in 1 .. Len(outOfDomainParticles')}
                    = {particleIndex \in octreeParticles :
                            ~IsInside(octree[<<>>], particlePosition'[particleIndex])}
            /\ Len(outOfDomainParticles') <= Cardinality(octreeParticles)
            /\ \A i \in 1 .. Len(outOfDomainParticles') :
                    \A j \in 1 .. Len(outOfDomainParticles') :
                        outOfDomainParticles'[i] = outOfDomainParticles'[j] => i = j
            /\ \A i \in 1 .. Len(outOfDomainParticles') :
                    IsInside(octree'[<<>>], particlePosition'[outOfDomainParticles'[i]])]_vars

(* updateParticles has handed two particles back to addParticle while a    *)
(* third one moved to another leaf or stayed.                              *)
C11_Witness ==
    /\ Len(outOfDomainParticles) = 2
    /\ Cardinality(octreeParticles) = MaxOctreeParticles
    /\ octree[<<>>].numParticles > maxParticlesPerNode

(* The subtree of the tree after at the path is the tree before            *)
SubtreeAt(after, path, before) ==
    /\ \A q \in DOMAIN before : path \o q \in DOMAIN after /\ after[path \o q] = before[q]
    /\ \A r \in DOMAIN after :
            IsPrefix(path, r) => SubSeq(r, Len(path) + 1, Len(r)) \in DOMAIN before

(* The tree before is a descendant of the root of the tree after           *)
Kept(before, after) == \E path \in DOMAIN after \ {<<>>} : SubtreeAt(after, path, before)

(* The tree the addParticle calls of a step start from: the octree, or in  *)
(* updateParticles what root->updateParticles has left of it               *)
Before(T, stored, storedAfter, posAfter) ==
    IF storedAfter # stored THEN T ELSE Updated(T, posAfter).tree

(* C12: re-rooting preserves the previous root.  Whenever a call enlarges  *)
(* the octree from an interior root, the root as it was (its exact domain, *)
(* its particle count, its children and all below them) is afterwards a    *)
(* descendant of the new root, one level down for each new root node       *)
(* installed; and no call ever throws the error 'Re-rooted octree domain   *)
(* does not match'.                                                        *)
C12_RerootingKeepsRoot ==
    [][/\ thrown' # "domain"
       /\ ~Threw(octree')
       /\ enlargedFrom' = {"interior"} =>
            Kept(Before(octree, octreeParticles, octreeParticles', particlePosition'), octree')]_vars

(* addParticle has added a particle outside the domain of an interior      *)
(* root, which is now a child of the root, beside another used child.      *)
C12_Witness ==
    /\ enlargedFrom = {"interior"}
    /\ thrown = ""
    /\ \E childIndex \in ChildIndices :
            octree[<<childIndex>>].numParticles > maxParticlesPerNode

(* The root's domain holds the position of every particle in the octree    *)
RootHoldsAll(T, stored, pos) ==
    \A particleIndex \in stored : IsInside(T[<<>>], pos[particleIndex])

(* C13, as claimed: after addParticle has added a particle outside the     *)
(* root's domain, the root's domain holds the new position and the         *)
(* position of every particle in the octree, and the tree as it was before *)
(* is a descendant of the root, unchanged.                                 *)
C13_OldTreeKeptAsDescendant ==
    [][(enlargedFrom' # {} /\ octreeParticles' # octreeParticles) =>
            /\ RootHoldsAll(octree', octreeParticles', particlePosition')
            /\ Kept(octree, octree')]_vars

(* C13, as the code has it: after a call has added a particle outside the  *)
(* root's domain, the root's domain holds the new position and the         *)
(* position of every particle in the octree (min <= p < max on every       *)
(* axis), and every particle is in exactly one leaf.  After addParticle    *)
(* the root's domain encloses the domain it had.  When the root was an     *)
(* interior node, the tree as it was is a descendant of the new root,      *)
(* unchanged; when the root was a leaf, no node is created for its old     *)
(* domain: the root itself gets the larger domain and keeps its particles, *)
(* and it is split only if the new particle exceeds its capacity.          *)
C13_EnlargedRootHoldsAll ==
    [][enlargedFrom' # {} =>
            /\ RootHoldsAll(octree', octreeParticles', particlePosition')
            /\ StoredOnce(octree', octreeParticles', particlePosition')
            /\ octreeParticles' # octreeParticles =>
                    /\ \A i \in Coords : /\ octree'[<<>>].min[i] <= octree[<<>>].min[i]
                                          /\ octree[<<>>].max[i] <= octree'[<<>>].max[i]
                    /\ enlargedFrom' = {"interior"} => Kept(octree, octree')
                    /\ (enlargedFrom' = {"leaf"}
                            /\ octree[<<>>].numParticles < maxParticlesPerNode) =>
                            /\ DOMAIN octree' = {<<>>}
                            /\ Live(octree'[<<>>])
                                    = Append(Live(octree[<<>>]),
                                             CHOOSE particleIndex \in octreeParticles' :
                                                particleIndex \notin octreeParticles)
                            /\ ~Kept(octree, octree')
                    /\ (enlargedFrom' = {"leaf"}
                            /\ octree[<<>>].numParticles = maxParticlesPerNode) =>
                            /\ octree'[<<>>].numParticles > maxParticlesPerNode
                            /\ \A childIndex \in ChildIndices :
                                    octree'[<<childIndex>>].numParticles
                                        <= maxParticlesPerNode]_vars

(* addParticle has enlarged a leaf root in place: the root is a leaf with  *)
(* a larger domain than a unit cell and holds the earlier particle and the *)
(* new one.                                                                *)
C13_Witness ==
    /\ enlargedFrom = {"leaf"}
    /\ DOMAIN octree = {<<>>}
    /\ octree[<<>>].numParticles = 2
    /\ octree[<<>>].max[1] - octree[<<>>].min[1] > UnitLength

(* C20: removeParticle on an octree that has no root throws the error      *)
(* 'Octree is empty', whatever the particle index, and the octree has no   *)
(* root afterwards either; no call on an octree that has a root throws     *)
(* that error.                                                             *)
C20_RemoveFromEmptyThrows ==
    /\ DOMAIN octree = {} =>
            \A particleIndex \in 0 .. MaxOctreeParticles - 1 :
                RemoveParticle(octree, particleIndex, particlePosition) = Failed("empty")
    /\ thrown = "empty" => (DOMAIN octree = {} /\ octreeParticles = {})

(* removeParticle has been called before any particle was added            *)
C20_Witness ==
    /\ thrown = "empty"
    /\ DOMAIN octree = {}

(***************************************************************************)
(* Properties of the particle system.                                      *)
(***************************************************************************)

(* The share of the scaled distance c that a correction delta is, up to    *)
(* the rounding of one grid step: delta = c * part / whole                 *)
IsShare(delta, c, part, whole) == Abs(delta * whole - c * part) < whole

(* The tick that has just been made relaxed one distance constraint once   *)
SingleCorrection ==
    /\ numTicks' # numTicks
    /\ Len(particleSystem.distConstraints) = 1
    /\ particleSystem.numRelaxationIterations = 1

(* What the single correction added to the position of a particle          *)
Corrected(index) == particleSystem'.pos[index] - relaxedFrom'[index]

(* C14 as claimed: the correction of a distance constraint is split in     *)
(* proportion to the other particle's inverse mass: particle 0 gets        *)
(* invMass1/(invMass0+invMass1) of it and particle 1 the fraction          *)
(* invMass0/(invMass0+invMass1).                                           *)
C14_SplitByOtherInverseMass ==
    [][SingleCorrection =>
        LET dc == particleSystem.distConstraints[1]
            im0 == particleSystem.invMass[dc.index0]
            im1 == particleSystem.invMass[dc.index1]
            c == ScaledDistance(dc, relaxedFrom', particleSystem)
        IN im0 + im1 > 0 =>
            /\ IsShare(Corrected(dc.index0), c, im1, im0 + im1)
            /\ IsShare(-Corrected(dc.index1), c, im0, im0 + im1)]_vars

(* C14: the correction of a distance constraint is split in proportion to  *)
(* each particle's own inverse mass: particle 0 moves by the fraction      *)
(* invMass0/(invMass0+invMass1) of the scaled distance vector towards      *)
(* particle 1, and particle 1 by invMass1/(invMass0+invMass1) of it        *)
(* towards particle 0, each divided by the larger number of distance       *)
(* constraints of the two particles; when both inverse masses are 0 each   *)
(* particle gets one half.  This holds for the correction of every         *)
(* constraint in every state, and a tick of one constraint and one         *)
(* relaxation iteration moves the two particles by exactly that.           *)
C14_SplitByOwnInverseMass ==
    [][/\ \A k \in DOMAIN particleSystem.distConstraints :
            LET dc == particleSystem.distConstraints[k]
                im0 == particleSystem.invMass[dc.index0]
                im1 == particleSystem.invMass[dc.index1]
                n == MaxOf(particleSystem.numDistConstraints[dc.index0],
                           particleSystem.numDistConstraints[dc.index1])
                c == ScaledDistance(dc, particleSystem.pos, particleSystem)
                r == DistCorrection(dc, particleSystem.pos, particleSystem)
            IN IF im0 + im1 > 0
               THEN /\ IsShare(r.delta0, c, im0, n * (im0 + im1))
                    /\ IsShare(-r.delta1, c, im1, n * (im0 + im1))
               ELSE /\ IsShare(r.delta0, c, 1, 2 * n)
                    /\ r.delta1 = -r.delta0
       /\ SingleCorrection =>
            LET dc == particleSystem.distConstraints[1]
                im0 == particleSystem.invMass[dc.index0]
                im1 == particleSystem.invMass[dc.index1]
                c == ScaledDistance(dc, relaxedFrom', particleSystem)
            IN IF im0 + im1 > 0
               THEN /\ IsShare(Corrected(dc.index0), c, im0, im0 + im1)
                    /\ IsShare(-Corrected(dc.index1), c, im1, im0 + im1)
               ELSE /\ IsShare(Corrected(dc.index0), c, 1, 2)
                    /\ Corrected(dc.index1) = -Corrected(dc.index0)]_vars

(* A tick has relaxed one constraint once between a particle of inverse    *)
(* mass 1 and one of inverse mass 2, and both have moved.                  *)
C14_Witness ==
    /\ numTicks = 1
    /\ Len(particleSystem.distConstraints) = 1
    /\ particleSystem.numRelaxationIterations = 1
    /\ LET dc == particleSystem.distConstraints[1]
       IN /\ particleSystem.invMass[dc.index0] = 1
          /\ particleSystem.invMass[dc.index1] = 2
          /\ particleSystem.pos[dc.index0] # relaxedFrom[dc.index0]
          /\ particleSystem.pos[dc.index1] # relaxedFrom[dc.index1]

(* C15: a particle whose inverse mass is 0 is immovable: its position      *)
(* after a tick is its position before the tick, whatever distance         *)
(* constraints it is part of and whatever the inverse masses of the        *)
(* particles at their other ends are.                                      *)
C15_PinnedParticleImmovable ==
    [][numTicks' # numTicks =>
        \A index \in SystemParticles(particleSystem) :
            particleSystem.invMass[index] = 0 =>
                particleSystem'.pos[index] = particleSystem.pos[index]]_vars

(***************************************************************************)
(* Properties of the network's selection.                                  *)
(***************************************************************************)

(* The nodes that a link joins to the given node                           *)
Neighbours(node) ==
    {other \in Nodes : \E k \in DOMAIN links :
                            links[k] = <<node, other>> \/ links[k] = <<other, node>>}

(* No selected node has a neighbour that is not selected                   *)
Closed(sel) == \A node \in sel : Neighbours(node) \subseteq sel

(* The nodes joined to the given ones by a chain of links                  *)
RECURSIVE Component(_)
Component(sel) ==
    LET more == sel \cup UNION {Neighbours(node) : node \in sel}
    IN IF more = sel THEN sel ELSE Component(more)

(* The links make a tree of all nodes: connected, with one link fewer than *)
(* there are nodes                                                         *)
TreeShaped ==
    /\ Len(links) = NumNodes - 1
    /\ Component({0}) = Nodes

(* The last two calls were growSelection and then shrinkSelection          *)
GrownThenShrunk == lastCall = "shrinkSelection" /\ grownFrom.valid

(* C16 as claimed: on a tree-shaped graph growSelection followed by        *)
(* shrinkSelection returns exactly the original selection if and only if   *)
(* the original selection was closed.                                      *)
C16_GrowShrinkAdjoint ==
    (GrownThenShrunk /\ TreeShaped) =>
        (selection = grownFrom.selection <=> Closed(grownFrom.selection))

(* C16: on every graph growSelection followed by shrinkSelection returns a *)
(* selection between the original and the grown one; it returns exactly    *)
(* the original selection if that was closed, and in general exactly when  *)
(* every node that growSelection added has a neighbour outside the grown   *)
(* selection.  shrinkSelection never selects a node.                       *)
C16_GrowShrinkKeepsSelection ==
    /\ lastCall = "shrinkSelection" => selection \subseteq selectionBefore
    /\ GrownThenShrunk =>
        LET original == grownFrom.selection
            grown == original \cup UNION {Neighbours(node) : node \in original}
        IN /\ original \subseteq selection
           /\ selection \subseteq grown
           /\ Closed(original) => selection = original
           /\ selection = original <=>
                  \A added \in grown \ original : ~(Neighbours(added) \subseteq grown)

(* On a tree growSelection and shrinkSelection have returned a selection   *)
(* that was not closed.                                                    *)
C16_Witness ==
    /\ GrownThenShrunk
    /\ TreeShaped
    /\ ~Closed(grownFrom.selection)
    /\ selection = grownFrom.selection

(* The path A-B-C with A = 0, B = 1 and C = 2                              *)
IsPath == links = <<<<0, 1>>, <<1, 2>>>>

(* C17: growSelection replaces the selection S by S and every node linked  *)
(* to a node of S, and shrinkSelection replaces S by the nodes of S all of *)
(* whose linked nodes are in S, both with S the selection before the call; *)
(* on the path A-B-C growing {A} gives {A,B}, growing {A,B} gives {A,B,C}, *)
(* shrinking {A,B,C} gives {A,B,C} and shrinking {A,B} gives {A}.          *)
C17_GrowAndShrink ==
    /\ lastCall = "growSelection" =>
            selection = selectionBefore
                            \cup {other \in Nodes : \E node \in selectionBefore :
                                                        other \in Neighbours(node)}
    /\ lastCall = "shrinkSelection" =>
            selection = {node \in selectionBefore : Neighbours(node) \subseteq selectionBefore}
    /\ IsPath =>
        /\ (lastCall = "growSelection" /\ selectionBefore = {0}) => selection = {0, 1}
        /\ (lastCall = "growSelection" /\ selectionBefore = {0, 1}) => selection = {0, 1, 2}
        /\ (lastCall = "shrinkSelection" /\ selectionBefore = {0, 1, 2}) => selection = {0, 1, 2}
        /\ (lastCall = "shrinkSelection" /\ selectionBefore = {0, 1}) => selection = {0}

(* On the path A-B-C growSelection has made {A,B} of {A} and               *)
(* shrinkSelection {A} of {A,B}.                                           *)
C17_Witness ==
    /\ IsPath
    /\ lastCall = "shrinkSelection"
    /\ grownFrom = [valid |-> TRUE, selection |-> {0}]
    /\ selectionBefore = {0, 1}
    /\ selection = {0}

(***************************************************************************)
(* Properties of the update timer.                                         *)
(***************************************************************************)

(* The step is a turn of the simulation loop that has called the           *)
(* simulation update callback                                              *)
UpdateSent == currentTime' # currentTime /\ lastUpdates' # lastUpdates

(* C18 as claimed: simulation updates are sent at the update interval, not *)
(* every tick: at most one per tick, and any two consecutive ones are at   *)
(* least one update interval apart, also after a deadline missed by more   *)
(* than one interval has been resynchronized to the current time.          *)
C18_UpdatesAnIntervalApart ==
    \A k \in 1 .. Len(lastUpdates) - 1 :
        /\ lastUpdates[k].time < lastUpdates[k + 1].time
        /\ lastUpdates[k].interval = lastUpdates[k + 1].interval =>
               lastUpdates[k + 1].time - lastUpdates[k].time >= lastUpdates[k].interval

(* C18: the simulation update callback is called at most once per tick,    *)
(* and only when the clock has reached the deadline nextUpdateTime.  Each  *)
(* call moves the deadline on by one update interval, or to the current    *)
(* time when that is not earlier, so the deadline is never behind the      *)
(* clock after a call and no burst of calls catches up on missed           *)
(* deadlines: of any three consecutive calls the first and the last are at *)
(* least one update interval apart.  Two consecutive calls can be closer   *)
(* than that.                                                              *)
C18_UpdateDeadlines ==
    [][/\ currentTime' # currentTime =>
            (lastUpdates' # lastUpdates <=> currentTime' >= nextUpdateTime)
       /\ UpdateSent =>
            /\ nextUpdateTime' >= currentTime'
            /\ nextUpdateTime' >= nextUpdateTime + updateInterval
            /\ nextUpdateTime' \in {nextUpdateTime + updateInterval, currentTime'}
            /\ \A k \in 1 .. Len(lastUpdates') - 1 :
                    lastUpdates'[k].time < lastUpdates'[k + 1].time
            /\ Len(lastUpdates') = 3 =>
                    lastUpdates'[3].time - lastUpdates'[1].time >= lastUpdates'[2].interval
       /\ ~UpdateSent => nextUpdateTime' = nextUpdateTime]_vars

(* A deadline was missed by more than the update interval and the timer    *)
(* restarted at the current time; the next update followed less than an    *)
(* update interval later.                                                  *)
C18_Witness ==
    /\ Len(lastUpdates) >= 2
    /\ LET last == lastUpdates[Len(lastUpdates)]
           previous == lastUpdates[Len(lastUpdates) - 1]
       IN /\ previous.restarted
          /\ previous.interval = last.interval
          /\ last.time - previous.time < last.interval

(***************************************************************************)
(* Pausing and resuming the simulation thread.                             *)
(***************************************************************************)

(* The simulation thread begins a tick: it leaves the pause check          *)
BeginsTick == pc[0] # "lock" /\ pc'[0] = "lock"

(* C19 as claimed: the simulation thread checks the pause flag at the top  *)
(* of every tick and resume() cannot be lost: while the pause flag is set  *)
(* no tick begins, and after resume() has woken the blocked simulation     *)
(* thread the thread always runs a further tick, in every interleaving of  *)
(* pause(), resume() and the tick loop.                                    *)
C19_ResumedThreadRunsTick ==
    /\ [][BeginsTick => (pc[0] = "pause" /\ ~pauseSimulationThread)]_vars
    /\ woken ~> ~woken

(* C19: the simulation thread checks the pause flag at the top of every    *)
(* tick and resume() cannot be lost: every turn of the loop goes through   *)
(* the pause check, a tick begins only when the check finds the flag       *)
(* clear, the thread is blocked in the wait only while the flag is set,    *)
(* and after resume() has woken the blocked thread the thread checks the   *)
(* flag again and then either begins a tick or, when pause() was called    *)
(* again in between, blocks again.                                         *)
C19_ResumeNotLost ==
    /\ [](pc[0] = "pausewait" => pauseSimulationThread)
    /\ [][BeginsTick => (pc[0] = "pause" /\ ~pauseSimulationThread)]_vars
    /\ [][(pc[0] = "loop" /\ pc'[0] # "loop") => pc'[0] \in {"pause", "done"}]_vars
    /\ [][(pc[0] = "pausewait" /\ pc'[0] # "pausewait") =>
            (pc'[0] = "pause" /\ ~pauseSimulationThread')]_vars
    /\ woken ~> (~woken \/ pc[0] = "pausewait")

(* resume() has woken the simulation thread, pause() was called before the *)
(* thread checked the flag, and the thread is blocked again without having *)
(* begun a tick.                                                           *)
C19_Witness ==
    /\ woken
    /\ pc[0] = "pausewait"
    /\ pauseSimulationThread
    /\ dtor = "none"

(***************************************************************************)
(* The network a client holds and the network the server simulates.        *)
(***************************************************************************)
(* The client has no ReadNetworkJob in flight and no load message on its   *)
(* way to or from the server                                               *)
Settled(c) ==
    /\ \A job \in viewerJobs : job.client # c
    /\ toClient[c] = <<>>
    /\ toServer[c] = <<>>

(* C21: whenever a connected client's network version equals the server's  *)
(* network version, the client has no load job pending (and no load        *)
(* message of its own is in flight), and the server has a simulator, the   *)
(* graph the client holds is the graph the simulator was built from.       *)
C21_VersionEqualityImpliesSameNetwork ==
    \A c \in clients :
        (/\ viewer[c].networkVersion = networkVersion
         /\ Settled(c)
         /\ jobs = {}
         /\ simulator # 0)
        => viewer[c].network = simulator

(***************************************************************************)
(* Properties of the selection-distance coloring.                          *)
(***************************************************************************)

(* The nodes within the given number of links of a node of sel             *)
RECURSIVE Within(_, _)
Within(sel, k) ==
    IF k = 0 THEN sel
    ELSE LET nearer == Within(sel, k - 1)
         IN nearer \cup UNION {Neighbours(node) : node \in nearer}

(* The smallest number of links between the node and a node of sel, or     *)
(* NumNodes when no chain of links joins them                              *)
ShortestDistance(node, sel) ==
    IF node \in Within(sel, NumNodes)
        THEN CHOOSE k \in 0 .. NumNodes : /\ node \in Within(sel, k)
                                          /\ \A j \in 0 .. k - 1 : node \notin Within(sel, j)
        ELSE NumNodes

(* The traversal that mapNodeColorsFromSelectionDistance runs for sel      *)
Traversal(sel) ==
    Traverse([nodeDistances |-> [n \in Nodes |-> IF n \in sel THEN 0 ELSE NumNodes],
              queue |-> SelectedNodes(sel),
              thrown |-> FALSE])

(* The last call has colored the nodes by their distance from the selection *)
ColoredByDistance ==
    /\ lastCall \in {"setSelection", "selectNode", "deselectNode", "growSelection",
                     "shrinkSelection"}
    /\ ~(lastCall = "deselectNode" /\ selection = {})

(* C26: for every graph, with cycles, parallel links and self-links, and   *)
(* every selection, mapNodeColorsFromSelectionDistance does not throw      *)
(* 'Took the long way around', and it gives every node its shortest link   *)
(* distance to a selected node, and grey to the nodes that no chain of     *)
(* links joins to the selection.                                           *)
C26_ShortestSelectionDistance ==
    ColoredByDistance =>
        /\ ~Traversal(selection).thrown
        /\ \A node \in Nodes : nodeColors[node] = ShortestDistance(node, selection)

(* The three nodes of a cycle have been colored from one selected node     *)
C26_Witness ==
    /\ ColoredByDistance
    /\ {links[k] : k \in DOMAIN links} = {<<0, 1>>, <<1, 2>>, <<0, 2>>}
    /\ selection = {0}
    /\ nodeColors[1] = 1
    /\ nodeColors[2] = 1

(***************************************************************************)
(* Termination of addParticle.                                             *)
(***************************************************************************)

(* octree.addParticle for the next particle the particle system creates,   *)
(* at the given position                                                   *)
AddParticleCall(position) ==
    LET result == Cardinality(Created)
    IN AddParticle(octree, result, (result :> position) @@ particlePosition)

(* The particles of the octree that are at the given position              *)
ParticlesAt(position) == {index \in octreeParticles : particlePosition[index] = position}

(* C28: addParticle returns after finitely many splits for every octree    *)
(* the calls so far have built and every position of the new particle,     *)
(* also when capacity particles are at that position already.              *)
C28_AddParticleTerminates ==
    (~Threw(octree) /\ Cardinality(Created) < MaxOctreeParticles) =>
        \A position \in Positions : ~NeverReturns(AddParticleCall(position))

(* The calls of addParticle that do not return are those for a position    *)
(* at which capacity particles of the octree are already                   *)
NeverReturnsIffCoincident ==
    (~Threw(octree) /\ Cardinality(Created) < MaxOctreeParticles) =>
        \A position \in Positions :
            NeverReturns(AddParticleCall(position))
                <=> Cardinality(ParticlesAt(position)) >= maxParticlesPerNode

(***************************************************************************)
(* Splitting and collapsing of octree nodes.  A node is named by its       *)
(* domain, which stays the same when the node gets a new parent.           *)
(***************************************************************************)
NodeDomain(node) == <<node.min, node.max>>

HasChildren(T, path) == Append(path, 0) \in DOMAIN T

LeafDomains(T) ==
    IF Threw(T) THEN {}
    ELSE {NodeDomain(T[path]) : path \in {q \in DOMAIN T : ~HasChildren(T, q)}}

InteriorDomains(T) ==
    IF Threw(T) THEN {}
    ELSE {NodeDomain(T[path]) : path \in {q \in DOMAIN T : HasChildren(T, q)}}

(* The number of particles of the node with the given domain               *)
CountOf(T, domain) ==
    T[CHOOSE path \in DOMAIN T : NodeDomain(T[path]) = domain].numParticles

(* The leaves that the step has split and the interior nodes that the step *)
(* has collapsed                                                           *)
SplitDomains == LeafDomains(octree) \cap InteriorDomains(octree')

CollapsedDomains == InteriorDomains(octree) \cap LeafDomains(octree')

(* The call of the step, by what it does to the set of stored particles    *)
IsAddParticle == octreeParticles \subseteq octreeParticles' /\ octreeParticles' # octreeParticles

IsRemoveParticle == octreeParticles' \subseteq octreeParticles /\ octreeParticles' # octreeParticles

IsUpdateParticles == octreeParticles' = octreeParticles

(* C27 as claimed: a leaf is split only when a particle is inserted into a *)
(* leaf that holds exactly capacity particles, and a subtree is collapsed  *)
(* only by an updateParticles pass that finds its count at or below        *)
(* capacity; no other call splits or collapses a node.                     *)
C27_CollapseOnlyInUpdatePass ==
    [][/\ SplitDomains # {} => IsAddParticle \/ IsUpdateParticles
       /\ IsAddParticle => \A domain \in SplitDomains :
                                CountOf(octree, domain) = maxParticlesPerNode
       /\ CollapsedDomains # {} => IsUpdateParticles
       /\ \A domain \in CollapsedDomains : CountOf(octree', domain) <= maxParticlesPerNode]_vars

(* C27: a leaf is split only by addParticle or by a re-insertion of        *)
(* updateParticles, and by addParticle only a leaf that holds exactly      *)
(* capacity particles; a subtree is collapsed into a leaf by               *)
(* removeParticle, when the removal lowers its count from capacity + 1 to  *)
(* capacity, or by an updateParticles pass that finds its count at or      *)
(* below capacity, and by no other call; removeParticle does not put the   *)
(* collapse off: an interior node whose count it has lowered to capacity   *)
(* is a leaf when the call returns.                                        *)
C27_LazySplitAndCollapse ==
    [][/\ SplitDomains # {} => IsAddParticle \/ IsUpdateParticles
       /\ IsAddParticle => \A domain \in SplitDomains :
                                CountOf(octree, domain) = maxParticlesPerNode
       /\ CollapsedDomains # {} => IsRemoveParticle \/ IsUpdateParticles
       /\ \A domain \in CollapsedDomains : CountOf(octree', domain) <= maxParticlesPerNode
       /\ IsRemoveParticle =>
            /\ \A domain \in CollapsedDomains :
                    /\ CountOf(octree, domain) = maxParticlesPerNode + 1
                    /\ CountOf(octree', domain) = maxParticlesPerNode
            /\ \A domain \in InteriorDomains(octree) \cap InteriorDomains(octree') :
                    CountOf(octree', domain) > maxParticlesPerNode]_vars

(* An octree whose root has been split, and from which removeParticle of   *)
(* one of its particles collapses the root into a leaf of capacity         *)
(* particles                                                               *)
C27_Witness ==
    /\ ~Threw(octree)
    /\ DOMAIN octree # {}
    /\ HasChildren(octree, <<>>)
    /\ \E particleIndex \in octreeParticles :
          LET removed == RemoveParticle(octree, particleIndex, particlePosition)
          IN /\ ~Threw(removed)
             /\ NodeDomain(octree[<<>>]) \in LeafDomains(removed)
             /\ removed[<<>>].numParticles = maxParticlesPerNode

(***************************************************************************)
(* The simulator's active drags.                                           *)
(***************************************************************************)

(* The active drags whose dragged-particle list holds the particle         *)
DragsOf(p) == {ad \in sim.activeDrags : \E dp \in ad.draggedParticles : dp.index = p}

(* The simulation thread has executed every command it was given           *)
AllExecuted == sim.simulationCommands = <<>> /\ sim.scs = <<>>

(* C30: after every executed command nodeDrags[i] is true iff particle i   *)
(* is in the dragged-particle list of exactly one active drag, no particle *)
(* is in two lists or twice in one list, and no active drag with an empty  *)
(* dragged-particle list is in the active-drag set.                        *)
C30_OneDragPerParticle ==
    /\ \A p \in Particles : sim.nodeDrags[p] <=> Cardinality(DragsOf(p)) = 1
    /\ \A p \in Particles : Cardinality(DragsOf(p)) <= 1
    /\ \A ad \in sim.activeDrags :
          /\ ad.draggedParticles # {}
          /\ \A dp1, dp2 \in ad.draggedParticles : dp1.index = dp2.index => dp1 = dp2

(* Two clients have started a drag of the same particle and both commands  *)
(* have been executed: the particle is in the first drag, and the second   *)
(* drag, which picked no particle, is not in the active-drag set           *)
C30_Witness ==
    /\ AllExecuted
    /\ \A c \in AllClients : nvClient[c].activeDrags # {}
    /\ Cardinality(sim.activeDrags) = 1
    /\ \E p \in Particles : sim.nodeDrags[p]

(* ---------------------------------------------------------------------- *)
(* C29: in the standalone viewer, whenever no SelectAndDragTool has its    *)
(* button pressed (every tool has ended its drag), every particle has the  *)
(* inverse mass it was created with and the selection lock is free.        *)
(* ---------------------------------------------------------------------- *)
NoToolDrags == \A t \in Tools : ~tools[t].pressed

C29_DragsRestoreInvMassAndLock ==
    NoToolDrags =>
        /\ \A p \in DOMAIN particleSystem.invMass : particleSystem.invMass[p] = InitialInvMass
        /\ ~selectionLocked

(* The part of C29 about the lock alone.                                   *)
LockFreeWhenNoToolDrags == NoToolDrags => ~selectionLocked

(* ---------------------------------------------------------------------- *)
(* C22: selection replicas converge.  Once no message is in flight, no     *)
(* simulator command is queued and no load job or file forward is under    *)
(* way, every connected client that holds the server's network in the      *)
(* server's version has the selection set of the server's network.         *)
(* ---------------------------------------------------------------------- *)
Quiescent ==
    /\ \A c \in AllClients : toServer[c] = <<>> /\ toClient[c] = <<>>
    /\ sim.simulationCommands = <<>> /\ sim.scs = <<>>
    /\ jobs = {} /\ viewerJobs = {} /\ forwards = {}

HoldsServerNetwork(c) ==
    /\ c \in clients
    /\ simulator # 0
    /\ viewer[c].network = simulator
    /\ viewer[c].networkVersion = networkVersion

C22_SelectionReplicasConverge ==
    Quiescent => \A c \in AllClients :
                    HoldsServerNetwork(c) => clientState[c].selection = sim.selection

(* ---------------------------------------------------------------------- *)
(* C23: whenever dragRequestCallback is about to process a drag request    *)
(* (the request's version is the server's and a simulator exists), the     *)
(* active-drag map of the requesting client has the request's drag ID.     *)
(* ---------------------------------------------------------------------- *)
C23_DragLookupFindsRecord ==
    \A c \in AllClients :
        (/\ Requested(c, "drag")
         /\ Head(toServer[c]).version = networkVersion
         /\ simulator # 0)
        => Head(toServer[c]).dragId \in nvClient[c].activeDrags

(* The same, seen after the handler has run                                *)
NoLookupThrows == lastRequest # "threw"

(* ---------------------------------------------------------------------- *)
(* C24: a select-node, change-selection, display-label, drag-start, drag   *)
(* or drag-stop request whose version is not the server's network version, *)
(* or that is handled while no simulator exists, changes nothing of the    *)
(* server and of the simulator and sends no notification.                  *)
(* ---------------------------------------------------------------------- *)
StaleRequest(c) ==
    /\ c \in clients
    /\ toServer[c] # <<>>
    /\ Head(toServer[c]).op # "loadNetwork"
    /\ (Head(toServer[c]).version # networkVersion \/ simulator = 0)

C24_StaleRequestsIgnored ==
    [][\A c \in AllClients :
          (StaleRequest(c) /\ toServer'[c] = Tail(toServer[c]))
          => UNCHANGED <<clients, numConnections, nvClient, networkVersion, networkFile,
                         network, simulator, sim, jobs, labeledNodes, forwards, toClient>>]_vars

(* The last request was ignored, and the server is loading its second      *)
(* network: it has the second version and no simulator.                    *)
C24_Witness ==
    /\ lastRequest = "ignored"
    /\ simulator = 0
    /\ networkVersion = NextVersion(NextVersion(0))
    /\ \A c \in AllClients : toServer[c] = <<>>

(* ---------------------------------------------------------------------- *)
(* The memory the threads of the team touch in a tick: particle positions  *)
(* and the rows of particleDeltas                                          *)
(* ---------------------------------------------------------------------- *)
NumTeamParticles == 3            \* number of particles of the simulated network
MaxRangeParticles == 7           \* the index ranges are computed for up to this many particles
MaxRangeThreads == 4             \* and for up to this many threads

TeamParticles == 0 .. NumTeamParticles - 1

(* particles.setNumThreads(1+numWorkerThreads,barrier); 1 without workers  *)
NumThreads == 1 + numWorkerThreads

(* Every thread's range begins at the first particle                       *)
RangeBeginAtZero(threadIndex, numParticles, numThreads) == 0

(* Index iBegin((threadIndex*numParticles)/numThreads)                     *)
RangeBegin(threadIndex, numParticles, numThreads) ==
    (threadIndex * numParticles) \div numThreads

(* Index iEnd(((threadIndex+1)*numParticles)/numThreads)                   *)
RangeEnd(threadIndex, numParticles, numThreads) ==
    ((threadIndex + 1) * numParticles) \div numThreads

IndexRange(threadIndex, numParticles, numThreads) ==
    {i \in 0 .. numParticles - 1 :
        /\ RangeBegin(threadIndex, numParticles, numThreads) <= i
        /\ i < RangeEnd(threadIndex, numParticles, numThreads)}

OwnParticles(t) == IndexRange(t, NumTeamParticles, NumThreads)

PosOf(indices) == {<<"pos", i>> : i \in indices}
PrevPosOf(indices) == {<<"prevPos", i>> : i \in indices}
DeltasOf(rows, indices) == {<<"particleDeltas", ti, i>> : ti \in rows, i \in indices}

NoAccess == [reads |-> {}, writes |-> {}]

(* What a thread reads and writes in each part of a tick.  The distance    *)
(* constraints of a thread can join any two particles; calcForce reads     *)
(* the positions of all particles through the octree.                      *)
PhaseAccess(t, phase) ==
    CASE phase = "move" ->
            [reads |-> PosOf(OwnParticles(t)) \cup PrevPosOf(OwnParticles(t)),
             writes |-> PrevPosOf(OwnParticles(t))]
      [] phase = "force" ->
            [reads |-> PosOf(TeamParticles) \cup PrevPosOf(OwnParticles(t)),
             writes |-> PrevPosOf(OwnParticles(t))]
      [] phase = "swappos" ->
            [reads |-> {}, writes |-> PosOf(TeamParticles) \cup PrevPosOf(TeamParticles)]
      [] phase = "bound" ->
            [reads |-> PosOf(OwnParticles(t)) \cup PrevPosOf(OwnParticles(t)),
             writes |-> PosOf(OwnParticles(t)) \cup PrevPosOf(OwnParticles(t))]
      [] phase = "accum" ->
            [reads |-> PosOf(TeamParticles) \cup DeltasOf({t}, TeamParticles),
             writes |-> DeltasOf({t}, TeamParticles)]
      [] phase = "apply" ->
            [reads |-> DeltasOf(Threads, OwnParticles(t)) \cup PosOf(OwnParticles(t)),
             writes |-> PosOf(OwnParticles(t))]
      [] phase = "octree" ->
            [reads |-> PosOf(TeamParticles) \cup PrevPosOf(TeamParticles), writes |-> {}]
      [] phase = "drags" ->
            [reads |-> {}, writes |-> PosOf(TeamParticles)]
      [] phase = "callback" ->
            [reads |-> PosOf(TeamParticles), writes |-> {}]
      [] OTHER -> NoAccess

Both(a, b) == [reads |-> a.reads \cup b.reads, writes |-> a.writes \cup b.writes]

(* What a thread reads and writes between the barrier it passed last and   *)
(* the barrier it meets next, by its position.  A thread that waits at a   *)
(* barrier has done what lies before that barrier.                         *)
EpochAccess(t) ==
    CASE pc[t] \in {"move", "force", "b1"} ->
            Both(PhaseAccess(t, "move"), PhaseAccess(t, "force"))
      [] pc[t] = "swappos" -> PhaseAccess(t, "swappos")
      [] pc[t] = "b2" -> IF elected = t THEN PhaseAccess(t, "swappos") ELSE NoAccess
      [] pc[t] = "bound" -> PhaseAccess(t, "bound")
      [] pc[t] = "b3" -> IF iteration[t] = 0 THEN PhaseAccess(t, "bound")
                         ELSE PhaseAccess(t, "apply")
      [] pc[t] \in {"accum", "b4"} -> PhaseAccess(t, "accum")
      [] pc[t] = "apply" -> PhaseAccess(t, "apply")
      [] pc[t] = "b5" -> IF NumRelaxationIterations = 0 THEN PhaseAccess(t, "bound")
                         ELSE PhaseAccess(t, "apply")
      [] pc[t] = "octree" -> PhaseAccess(t, "octree")
      [] pc[t] = "b6" -> IF elected = t THEN PhaseAccess(t, "octree") ELSE NoAccess
      [] t = 0 /\ pc[t] \in {"time", "callback", "loop", "pause", "pausewait", "lock",
                             "swapq", "exec", "drags", "b0"} ->
            Both(PhaseAccess(t, "callback"), PhaseAccess(t, "drags"))
      [] OTHER -> NoAccess

Conflict(a, b) ==
    \/ a.writes \cap (b.reads \cup b.writes) # {}
    \/ b.writes \cap a.reads # {}

(* ---------------------------------------------------------------------- *)
(* C25: the index ranges of the threads are pairwise disjoint and cover    *)
(* all particles; between two barriers no two threads write the same       *)
(* position or delta entry, and no thread reads a position or delta entry  *)
(* that another thread writes (so a delta row is zeroed only after every   *)
(* thread has applied the deltas of the round before).                     *)
(* ---------------------------------------------------------------------- *)
RangesPartition ==
    \A numParticles \in 0 .. MaxRangeParticles, numThreads \in 1 .. MaxRangeThreads :
        \A i \in 0 .. numParticles - 1 :
            Cardinality({threadIndex \in 0 .. numThreads - 1 :
                            i \in IndexRange(threadIndex, numParticles, numThreads)}) = 1

NoRace ==
    \A t \in Threads, u \in Threads :
        t # u => ~Conflict(EpochAccess(t), EpochAccess(u))

====
